---- MODULE Spec2Model ----
(***************************************************************************)
(* Attendance reconciliation engine of backend/app/reports.py: day         *)
(* attendance, segment accumulation, polarity heuristic, mapping state and *)
(* the daily / monthly / yearly report builders.                           *)
(*                                                                         *)
(* Time is counted in whole seconds from midnight of day 0.  An Optional   *)
(* Python value is a sequence of length at most one: None is <<>>, a       *)
(* present value x is <<x>>.                                               *)
(***************************************************************************)
EXTENDS Integers, Sequences, FiniteSets, TLC

VARIABLES
    tEvent,        \* rows of [TEvent] of the card, in EventTime order
    tColumns,      \* INFORMATION_SCHEMA columns of TEvent / TEventType
    sampleRows,    \* most recent rows of [TEvent] system-wide (run-length form)
    settings,      \* config.settings: shift_out_cutoff_hours, inout_swap
    schemaCache,   \* _SCHEMA_CACHE
    mappingCache,  \* _MAPPING_CACHE
    clock,         \* time.time()
    ret,           \* what the last call returned
    calls,         \* the call each request thread is in, with its locals
    locks,         \* holder of _SCHEMA_LOCK and of _MAPPING_LOCK
    appDb,         \* the application database: users, password_resets
    limiterHits,   \* SlidingWindowLimiter._hits
    answered       \* what SlidingWindowLimiter.allow has answered, in order

vars ==
    <<tEvent, tColumns, sampleRows, settings, schemaCache, mappingCache, clock, ret, calls,
      locks, appDb, limiterHits, answered>>

----------------------------------------------------------------------------
(* Bounds of the model *)

\* number of calendar days on which badge swipes are recorded
MaxDay == 2
\* number of rows the card has in [TEvent]
MaxEvents == 3

(* Units *)
SecondsPerMinute == 60
MinutesPerHour == 60
HoursPerDay == 24
SecondsPerHour == SecondsPerMinute * MinutesPerHour
SecondsPerDay == SecondsPerHour * HoursPerDay

\* clock times (seconds after midnight) at which the modelled swipes happen:
\* 03:00:00 and 22:00:30
SwipeClockTimes == {3 * SecondsPerHour, 22 * SecondsPerHour + 30}
SwipeTimes == {d * SecondsPerDay + c : d \in 0..(MaxDay - 1), c \in SwipeClockTimes}
\* values of SHIFT_OUT_CUTOFF_HOURS the model runs under
CutoffChoices == {3, 6}

----------------------------------------------------------------------------
(* Optional values *)

None == <<>>
Some(x) == <<x>>
IsNone(o) == o = <<>>
Val(o) == o[1]

Flags == {Some(1), Some(0), None}

Idle == [op |-> "idle"]

\* request threads of the server
MaxThreads == 2
Threads == 1..MaxThreads
\* a thread that is in no call
NoCall == [pc |-> "idle", resolved |-> None, result |-> None]
NoCalls == [t \in Threads |-> NoCall]
NoLocks == [schema |-> None, mapping |-> None]
\* the application database before any user exists
NoAppDb == [users |-> <<>>, password_resets |-> <<>>]
\* defaultdict(deque) with no key yet
NoHits == <<>>

RECURSIVE SeqMin(_)
SeqMin(s) ==
    IF Len(s) = 1 THEN s[1]
    ELSE LET m == SeqMin(Tail(s)) IN IF s[1] <= m THEN s[1] ELSE m

RECURSIVE SeqMax(_)
SeqMax(s) ==
    IF Len(s) = 1 THEN s[1]
    ELSE LET m == SeqMax(Tail(s)) IN IF s[1] >= m THEN s[1] ELSE m

Min2(a, b) == IF a <= b THEN a ELSE b
Max2(a, b) == IF a >= b THEN a ELSE b

\* [ f(s[i]) : i in 1..Len(s) ] as a sequence
TimesOf(s) == [i \in 1..Len(s) |-> s[i].event_time]

----------------------------------------------------------------------------
(* _duration_minutes *)

DurationMinutesRoundedUp(first_in, last_out) ==
    IF IsNone(first_in) \/ IsNone(last_out) THEN None
    ELSE IF Val(last_out) < Val(first_in) THEN None
    ELSE Some((Val(last_out) - Val(first_in) + SecondsPerMinute - 1) \div SecondsPerMinute)

DurationMinutes(first_in, last_out) ==
    IF IsNone(first_in) \/ IsNone(last_out) THEN None
    ELSE IF Val(last_out) < Val(first_in) THEN None
    ELSE Some((Val(last_out) - Val(first_in)) \div SecondsPerMinute)

(* _is_in_event / _is_out_event / _event_state *)

EffectiveFlag(flag, swap_applied) ==
    IF swap_applied /\ flag = 1 THEN 0
    ELSE IF swap_applied /\ flag = 0 THEN 1
    ELSE flag

IsInEvent(event, swap_applied) ==
    IF event.inout_flag \notin {Some(0), Some(1)} THEN FALSE
    ELSE EffectiveFlag(Val(event.inout_flag), swap_applied) = 1

IsOutEvent(event, swap_applied) ==
    IF event.inout_flag \notin {Some(0), Some(1)} THEN FALSE
    ELSE EffectiveFlag(Val(event.inout_flag), swap_applied) = 0

EventState(event, swap_applied) ==
    IF event.inout_flag \notin {Some(0), Some(1)} THEN None
    ELSE IF ~swap_applied THEN event.inout_flag
    ELSE IF Val(event.inout_flag) = 1 THEN Some(0) ELSE Some(1)

----------------------------------------------------------------------------
(* _compute_day_attendance *)

DateOf(t) == t \div SecondsPerDay

\* overnight_end = day_end + timedelta(hours=cutoff_hours)
OvernightEndIgnoringCutoff(day_end, cutoff_hours) == day_end
OvernightEnd(day_end, cutoff_hours) == day_end + cutoff_hours * SecondsPerHour

\* the filter of the primary buckets: the event lies inside the calendar day
InDayNoUpperBound(event_time, day_start, day_end) == ~(event_time < day_start)
InDay(event_time, day_start, day_end) ==
    ~(event_time < day_start \/ event_time >= day_end)

\* missing_punch = (first_in is None) ^ (last_out is None)
MissingPunchEitherAbsent(first_in, last_out) == IsNone(first_in) \/ IsNone(last_out)
MissingPunch(first_in, last_out) == IsNone(first_in) # IsNone(last_out)

\* first_in <= event["event_time"]
AfterInOrBefore(first_in, event_time) == TRUE
AfterIn(first_in, event_time) == first_in <= event_time

\* outs_after_in: the OUT events with first_in <= event_time < overnight_end
OutsAfterIn(day_events, first_in, overnight_end, swap_applied) ==
    TimesOf(SelectSeq(day_events,
                LAMBDA e : AfterIn(first_in, e.event_time)
                           /\ e.event_time < overnight_end
                           /\ IsOutEvent(e, swap_applied)))

\* last_out = max(outs_after_in)
FirstOutAfterIn(outs_after_in) == outs_after_in[1]
LastOutAfterIn(outs_after_in) == SeqMax(outs_after_in)

ComputeDayAttendance(day_start, day_events, swap_applied, cutoff_hours) ==
    LET day_end == day_start + SecondsPerDay
        overnight_end == OvernightEnd(day_end, cutoff_hours)
        in_day(e) == InDay(e.event_time, day_start, day_end)
        in_primary == TimesOf(SelectSeq(day_events,
                          LAMBDA e : in_day(e) /\ IsInEvent(e, swap_applied)))
        out_primary == TimesOf(SelectSeq(day_events,
                          LAMBDA e : in_day(e) /\ ~IsInEvent(e, swap_applied)
                                               /\ IsOutEvent(e, swap_applied)))
        first_in == IF in_primary # <<>> THEN Some(SeqMin(in_primary)) ELSE None
        outs_after_in == OutsAfterIn(day_events, Val(first_in), overnight_end,
                                     swap_applied)
        window_out == IF outs_after_in # <<>> THEN Some(LastOutAfterIn(outs_after_in))
                      ELSE None
        \* sanity check: rescan for the last OUT at or after first_in
        rescan == TimesOf(SelectSeq(day_events,
                          LAMBDA e : ~(e.event_time < Val(first_in)
                                       \/ e.event_time >= overnight_end)
                                     /\ IsOutEvent(e, swap_applied)))
        checked_out == IF ~IsNone(window_out) /\ Val(window_out) < Val(first_in)
                       THEN (IF rescan # <<>> THEN Some(rescan[Len(rescan)]) ELSE None)
                       ELSE window_out
        paired_out == IF ~IsNone(first_in) THEN checked_out
                      ELSE IF out_primary # <<>> THEN Some(SeqMax(out_primary)) ELSE None
        duration_minutes == DurationMinutes(first_in, paired_out)
        last_out == IF ~IsNone(first_in) /\ ~IsNone(paired_out) /\ IsNone(duration_minutes)
                    THEN None ELSE paired_out
    IN [date |-> DateOf(day_start),
        first_in_dt |-> first_in,
        last_out_dt |-> last_out,
        duration_minutes |-> duration_minutes,
        missing_punch |-> MissingPunch(first_in, last_out),
        has_relevant_events |-> (in_primary # <<>> \/ out_primary # <<>>)]

(* _serialize_day_record: timestamps are printed to the second *)
SerializeDayRecord(record) ==
    [date |-> record.date,
     first_in |-> record.first_in_dt,
     last_out |-> record.last_out_dt,
     duration_minutes |-> record.duration_minutes,
     missing_punch |-> record.missing_punch]

----------------------------------------------------------------------------
(* Schema resolution and event-variant detection *)

\* str.lower() on the column names the model uses
Lower(c) ==
    CASE c \in {"EventType", "EVENTTYPE"} -> "eventtype"
      [] c \in {"EventID", "eventid"} -> "eventid"
      [] c \in {"InOut", "INOUT"} -> "inout"
      [] c \in {"Event", "event"} -> "event"
      [] c \in {"EventTime", "eventtime"} -> "eventtime"
      [] c \in {"CardNo", "cardno"} -> "cardno"
      [] OTHER -> c

(* _pick_first: first candidate that some existing column equals, ignoring case *)
RECURSIVE PickFirst(_, _)
PickFirst(existing, candidates) ==
    IF candidates = <<>> THEN None
    ELSE LET hits == {c \in existing : Lower(c) = Lower(Head(candidates))}
         IN IF hits # {} THEN Some(CHOOSE c \in hits : TRUE)
            ELSE PickFirst(existing, Tail(candidates))

(* _resolve_schema, the roles the event queries read *)
ResolveSchema(columns) ==
    [event_columns |-> columns.event,
     event_type_columns |-> columns.event_type,
     event_card_col |-> PickFirst(columns.event, <<"CardNo">>),
     event_time_col |-> PickFirst(columns.event, <<"EventTime">>)]

\* if tevent_event_type_col and tetype_event_id_col:
JoinsByEventTypeAlone(tevent_event_type_col, tetype_event_id_col) ==
    ~IsNone(tevent_event_type_col)
JoinsByEventType(tevent_event_type_col, tetype_event_id_col) ==
    ~IsNone(tevent_event_type_col) /\ ~IsNone(tetype_event_id_col)

(* _detect_event_variant.  inout_expr names the SQL expression built:         *)
(* NORMALIZED (_normalized_inout_case), ENTRY_EXIT (_entry_exit_case) or NULL *)
(* raw_expr and fallback_text_expr name the columns the expression reads      *)
DetectEventVariant(schema) ==
    LET tevent_event_type_col == PickFirst(schema.event_columns, <<"EventType">>)
        tevent_event_id_col == PickFirst(schema.event_columns, <<"EventID">>)
        tevent_inout_col == PickFirst(schema.event_columns, <<"InOut">>)
        tevent_event_text_col == PickFirst(schema.event_columns, <<"Event">>)
        tetype_event_id_col == PickFirst(schema.event_type_columns, <<"EventID">>)
        tetype_inout_col == PickFirst(schema.event_type_columns, <<"InOut">>)
        tetype_event_text_col == PickFirst(schema.event_type_columns, <<"Event">>)
        joined_expr == IF ~IsNone(tetype_inout_col) THEN "NORMALIZED"
                       ELSE IF ~IsNone(tetype_event_text_col) THEN "ENTRY_EXIT"
                       ELSE "NULL"
        joined_raw == IF ~IsNone(tetype_inout_col) THEN "et.InOut"
                      ELSE IF ~IsNone(tetype_event_text_col) THEN "et.Event"
                      ELSE "none"
        joined_fallback == IF ~IsNone(tetype_inout_col) /\ ~IsNone(tetype_event_text_col)
                           THEN "et.Event" ELSE "none"
    IN IF JoinsByEventType(tevent_event_type_col, tetype_event_id_col)
       THEN [variant |-> "EVENTTYPE_to_EventID", inout_expr |-> joined_expr,
             raw_expr |-> joined_raw, fallback_text_expr |-> joined_fallback]
       ELSE IF ~IsNone(tevent_event_id_col) /\ ~IsNone(tetype_event_id_col)
       THEN [variant |-> "EVENTID_to_EventID", inout_expr |-> joined_expr,
             raw_expr |-> joined_raw, fallback_text_expr |-> joined_fallback]
       ELSE IF ~IsNone(tevent_inout_col)
       THEN [variant |-> "TEVENT_InOut_only", inout_expr |-> "NORMALIZED",
             raw_expr |-> "e.InOut", fallback_text_expr |-> "none"]
       ELSE IF ~IsNone(tevent_event_text_col)
       THEN [variant |-> "TEVENT_Event_text_only", inout_expr |-> "ENTRY_EXIT",
             raw_expr |-> "e.Event", fallback_text_expr |-> "none"]
       ELSE [variant |-> "UNSUPPORTED", inout_expr |-> "NULL",
             raw_expr |-> "none", fallback_text_expr |-> "none"]

----------------------------------------------------------------------------
(* Event queries *)

(* _normalize_inout_flag on the value the SQL expression yields *)
NormalizeInoutFlag(value) ==
    IF value = Some(1) THEN Some(1)
    ELSE IF value = Some(0) THEN Some(0)
    ELSE None

\* one fetched row: EventTime and the detector's InOutFlag expression
FetchedRow(row, detector) ==
    [event_time |-> row.event_time,
     inout_flag |-> NormalizeInoutFlag(
                        IF detector.inout_expr = "NULL" THEN None ELSE row.inout_flag)]

FetchedRows(rows, detector) == [i \in 1..Len(rows) |-> FetchedRow(rows[i], detector)]

(* _fetch_events_for_card: rows with start <= EventTime < end, ascending *)
FetchEventsForCard(rows, schema, start, end, detector) ==
    IF IsNone(schema.event_card_col) \/ IsNone(schema.event_time_col) THEN <<>>
    ELSE IF detector.variant = "UNSUPPORTED" THEN <<>>
    ELSE FetchedRows(SelectSeq(rows, LAMBDA r : r.event_time >= start /\ r.event_time < end),
                     detector)

(* _fetch_last_event_before: TOP 1 row with EventTime < boundary, descending *)
FetchLastEventBefore(rows, schema, boundary, detector) ==
    IF IsNone(schema.event_card_col) \/ IsNone(schema.event_time_col) THEN None
    ELSE IF detector.variant = "UNSUPPORTED" THEN None
    ELSE LET before == SelectSeq(rows, LAMBDA r : r.event_time < boundary)
         IN IF before = <<>> THEN None
            ELSE Some(FetchedRow(before[Len(before)], detector))

----------------------------------------------------------------------------
(* _build_single_day_record *)

BuildSingleDayRecord(rows, schema, selected_date, swap_applied, detector, cutoff_hours) ==
    LET day_start == selected_date * SecondsPerDay
        day_end == day_start + SecondsPerDay
        overnight_end == day_end + cutoff_hours * SecondsPerHour
        events == FetchEventsForCard(rows, schema, day_start, overnight_end, detector)
    IN SerializeDayRecord(ComputeDayAttendance(day_start, events, swap_applied, cutoff_hours))

(* _build_daily_records_for_period: one pass over the days of [start, end) with a *)
(* sliding index window [start_idx, end_idx) over the fetched events              *)

RECURSIVE SkipWhileBefore(_, _, _)
SkipWhileBefore(events, idx, limit) ==
    IF idx < Len(events) /\ events[idx + 1].event_time < limit
    THEN SkipWhileBefore(events, idx + 1, limit)
    ELSE idx

\* events[start_idx:end_idx], indices counted from 0 as in the source
Slice(events, start_idx, end_idx) ==
    IF end_idx <= start_idx THEN <<>> ELSE SubSeq(events, start_idx + 1, end_idx)

\* overnight_end = day_end + timedelta(hours=settings.shift_out_cutoff_hours)
WindowEndAtMidnight(day_end, cutoff_hours) == day_end
WindowEnd(day_end, cutoff_hours) == day_end + cutoff_hours * SecondsPerHour

\* one pass of the while loop: the day starting at day_cursor
PeriodStep(events, day_cursor, st, swap_applied, cutoff_hours) ==
    LET day_end == day_cursor + SecondsPerDay
        overnight_end == WindowEnd(day_end, cutoff_hours)
        start_idx == SkipWhileBefore(events, st.start_idx, day_cursor)
        end_idx1 == IF st.end_idx < start_idx THEN start_idx ELSE st.end_idx
        end_idx == SkipWhileBefore(events, end_idx1, overnight_end)
        day_events == Slice(events, start_idx, end_idx)
        day_record == ComputeDayAttendance(day_cursor, day_events, swap_applied,
                                           cutoff_hours)
    IN [start_idx |-> start_idx,
        end_idx |-> end_idx,
        records |-> IF day_record.has_relevant_events
                    THEN Append(st.records, SerializeDayRecord(day_record))
                    ELSE st.records]

\* passes of "while day_cursor < end" with day_cursor advancing by one day
PassesOf(start, end) ==
    IF end <= start THEN 0 ELSE (end - start + SecondsPerDay - 1) \div SecondsPerDay

RECURSIVE PeriodLoop(_, _, _, _, _, _)
\* the passes for `passes` days from day_cursor on, in order: the first half of
\* the run is carried out, then the second half continues from its result
PeriodLoop(events, day_cursor, passes, st, swap_applied, cutoff_hours) ==
    IF passes = 0 THEN st
    ELSE IF passes = 1 THEN PeriodStep(events, day_cursor, st, swap_applied, cutoff_hours)
    ELSE LET half == passes \div 2
         IN CHOOSE done \in
                {PeriodLoop(events, day_cursor + half * SecondsPerDay, passes - half, mid,
                            swap_applied, cutoff_hours) :
                    mid \in {PeriodLoop(events, day_cursor, half, st, swap_applied,
                                        cutoff_hours)}} : TRUE

BuildDailyRecordsForPeriod(rows, schema, start, end, swap_applied, detector, cutoff_hours) ==
    LET extended_end == end + SecondsPerDay + cutoff_hours * SecondsPerHour
        events == FetchEventsForCard(rows, schema, start, extended_end, detector)
    IN PeriodLoop(events, start, PassesOf(start, end),
                  [start_idx |-> 0, end_idx |-> 0, records |-> <<>>],
                  swap_applied, cutoff_hours).records

----------------------------------------------------------------------------
(* _accumulate_segment_minutes: day_totals maps a date to its in / out minutes *)

AddMinutes(day_totals, day_key, state, minutes) ==
    LET bucket == IF day_key \in DOMAIN day_totals THEN day_totals[day_key]
                  ELSE [in_minutes |-> 0, out_minutes |-> 0]
        bucket2 == IF state = 1 THEN [bucket EXCEPT !.in_minutes = @ + minutes]
                   ELSE IF state = 0 THEN [bucket EXCEPT !.out_minutes = @ + minutes]
                   ELSE bucket
    IN [k \in DOMAIN day_totals \cup {day_key} |->
            IF k = day_key THEN bucket2 ELSE day_totals[k]]

\* chunk_end = min(clipped_end, next_day)
ChunkEndUnsplit(clipped_end, next_day) == clipped_end
ChunkEnd(clipped_end, next_day) == Min2(clipped_end, next_day)

RECURSIVE AccumulateChunks(_, _, _, _)
AccumulateChunks(day_totals, state, cursor, clipped_end) ==
    IF ~(cursor < clipped_end) THEN day_totals
    ELSE LET next_day == (DateOf(cursor) + 1) * SecondsPerDay
             chunk_end == ChunkEnd(clipped_end, next_day)
             minutes == (chunk_end - cursor) \div SecondsPerMinute
             totals2 == IF minutes > 0
                        THEN AddMinutes(day_totals, DateOf(cursor), state, minutes)
                        ELSE day_totals
         IN AccumulateChunks(totals2, state, chunk_end, clipped_end)

AccumulateSegmentMinutes(day_totals, state, segment_start, segment_end,
                         window_start, window_end) ==
    LET clipped_start == Max2(segment_start, window_start)
        clipped_end == Min2(segment_end, window_end)
    IN IF clipped_end <= clipped_start THEN day_totals
       ELSE AccumulateChunks(day_totals, state, clipped_start, clipped_end)

(* list.sort(key=event_time): stable *)
RECURSIVE InsertSorted(_, _)
InsertSorted(sorted, e) ==
    IF sorted = <<>> THEN <<e>>
    ELSE IF sorted[Len(sorted)].event_time <= e.event_time THEN Append(sorted, e)
    ELSE Append(InsertSorted(SubSeq(sorted, 1, Len(sorted) - 1), e), sorted[Len(sorted)])

RECURSIVE SortByEventTime(_)
SortByEventTime(s) ==
    IF s = <<>> THEN <<>>
    ELSE InsertSorted(SortByEventTime(SubSeq(s, 1, Len(s) - 1)), s[Len(s)])

RECURSIVE SumOver(_, _, _)
SumOver(day_totals, keys, field) ==
    IF keys = {} THEN 0
    ELSE LET k == CHOOSE x \in keys : TRUE
         IN (IF field = "in" THEN day_totals[k].in_minutes ELSE day_totals[k].out_minutes)
            + SumOver(day_totals, keys \ {k}, field)

ZeroTotals == [totalInMinutes |-> 0, totalOutMinutes |-> 0, per_day |-> <<>>]

\* after the last event the loop ends: the segment still open is not closed
AfterLastEventClosedAtEnd(day_totals, state, segment_start, start, end) ==
    IF ~IsNone(state) /\ ~IsNone(segment_start)
    THEN AccumulateSegmentMinutes(day_totals, Val(state), Val(segment_start), end, start, end)
    ELSE day_totals
AfterLastEvent(day_totals, state, segment_start, start, end) == day_totals

(* the event loop of _compute_period_segment_totals *)
RECURSIVE WalkTimeline(_, _, _, _, _, _, _, _)
WalkTimeline(timeline, i, state, segment_start, day_totals, start, end, swap_applied) ==
    IF i > Len(timeline) THEN AfterLastEvent(day_totals, state, segment_start, start, end)
    ELSE LET event == timeline[i]
             next_state == EventState(event, swap_applied)
         IN IF IsNone(next_state)
            THEN WalkTimeline(timeline, i + 1, state, segment_start, day_totals,
                              start, end, swap_applied)
            ELSE IF IsNone(state)
            THEN WalkTimeline(timeline, i + 1, next_state, Some(event.event_time),
                              day_totals, start, end, swap_applied)
            ELSE IF next_state = state
            THEN WalkTimeline(timeline, i + 1, state, segment_start, day_totals,
                              start, end, swap_applied)
            ELSE WalkTimeline(timeline, i + 1, next_state, Some(event.event_time),
                     IF ~IsNone(segment_start)
                     THEN AccumulateSegmentMinutes(day_totals, Val(state),
                              Val(segment_start), event.event_time, start, end)
                     ELSE day_totals,
                     start, end, swap_applied)

(* _compute_period_segment_totals *)
ComputePeriodSegmentTotals(rows, schema, start, end, swap_applied, detector) ==
    IF end <= start THEN ZeroTotals
    ELSE IF detector.variant = "UNSUPPORTED" THEN ZeroTotals
    ELSE LET fetched == FetchEventsForCard(rows, schema, start, end, detector)
             anchor == FetchLastEventBefore(rows, schema, start, detector)
             timeline == IF ~IsNone(anchor) THEN <<Val(anchor)>> \o fetched ELSE fetched
         IN IF timeline = <<>> THEN ZeroTotals
            ELSE LET day_totals == WalkTimeline(SortByEventTime(timeline), 1, None, None,
                                                <<>>, start, end, swap_applied)
                 IN [totalInMinutes |-> SumOver(day_totals, DOMAIN day_totals, "in"),
                     totalOutMinutes |-> SumOver(day_totals, DOMAIN day_totals, "out"),
                     per_day |-> day_totals]

----------------------------------------------------------------------------
(* _get_schema, one caller at a time: the cached descriptor, else a fresh one *)

GetSchema(cache, columns) == IF ~IsNone(cache) THEN Val(cache) ELSE ResolveSchema(columns)

\* a schema on which the direct in/out column is detected
SupportedColumns == [event |-> {"CardNo", "EventTime", "InOut"}, event_type |-> {}]

LastSwipeTime == IF tEvent = <<>> THEN 0 ELSE tEvent[Len(tEvent)].event_time

(* A badge swipe of the card adds a row to [TEvent]; the value a call returned *)
(* before it is not kept                                                      *)
Swipe(t, flag) ==
    /\ Len(tEvent) < MaxEvents
    /\ t >= LastSwipeTime
    /\ tEvent' = Append(tEvent, [event_time |-> t, inout_flag |-> flag])
    /\ ret' = Idle
    /\ UNCHANGED <<appDb, limiterHits, answered, tColumns, sampleRows, settings, calls, locks, schemaCache, mappingCache, clock>>

----------------------------------------------------------------------------
(* Day attendance: the single-day and the period builder, called as the     *)
(* report functions call them                                               *)

CallBuildSingleDayRecord(selected_date, swap_applied) ==
    LET schema == GetSchema(schemaCache, tColumns)
        detector == DetectEventVariant(schema)
    IN /\ ret = Idle
       /\ schemaCache' = Some(schema)
       /\ ret' = [op |-> "build_single_day_record",
                  selected_date |-> selected_date,
                  swap_applied |-> swap_applied,
                  value |-> BuildSingleDayRecord(tEvent, schema, selected_date, swap_applied,
                                detector, settings.shift_out_cutoff_hours)]
       /\ UNCHANGED <<appDb, limiterHits, answered, tEvent, tColumns, sampleRows, settings, calls, locks, mappingCache, clock>>

CallBuildDailyRecordsForPeriod(start, end, swap_applied) ==
    LET schema == GetSchema(schemaCache, tColumns)
        detector == DetectEventVariant(schema)
    IN /\ ret = Idle
       /\ schemaCache' = Some(schema)
       /\ ret' = [op |-> "build_daily_records_for_period",
                  start |-> start, end |-> end,
                  swap_applied |-> swap_applied,
                  value |-> BuildDailyRecordsForPeriod(tEvent, schema, start * SecondsPerDay,
                                end * SecondsPerDay, swap_applied, detector,
                                settings.shift_out_cutoff_hours)]
       /\ UNCHANGED <<appDb, limiterHits, answered, tEvent, tColumns, sampleRows, settings, calls, locks, mappingCache, clock>>

(* _compute_day_attendance called on its own, with any list of events in    *)
(* any order as day_events                                                  *)
DayEventChoices == [event_time : SwipeTimes, inout_flag : Flags]
DayEventLists == UNION {[1..n -> DayEventChoices] : n \in 0..MaxEvents}

CallComputeDayAttendance(day, swap_applied) ==
    /\ ret' = [op |-> "compute_day_attendance",
               day_start |-> day * SecondsPerDay,
               swap_applied |-> swap_applied,
               value |-> ComputeDayAttendance(day * SecondsPerDay, tEvent, swap_applied,
                             settings.shift_out_cutoff_hours)]
    /\ UNCHANGED <<appDb, limiterHits, answered, tEvent, tColumns, sampleRows, settings, calls, locks, schemaCache,
                   mappingCache, clock>>

InitAttend ==
    /\ tEvent \in DayEventLists
    /\ tColumns = SupportedColumns
    /\ sampleRows = <<>>
    /\ settings \in [shift_out_cutoff_hours : CutoffChoices, inout_swap : {FALSE}]
    /\ schemaCache = None
    /\ mappingCache = None
    /\ clock = 0
    /\ ret = Idle
    /\ calls = NoCalls
    /\ locks = NoLocks
    /\ appDb = NoAppDb
    /\ limiterHits = NoHits
    /\ answered = <<>>

NextAttend ==
    \E d \in 0..(MaxDay - 1), swap \in BOOLEAN : CallComputeDayAttendance(d, swap)

SpecAttend == InitAttend /\ [][NextAttend]_vars

InitDay ==
    /\ tEvent = <<>>
    /\ tColumns = SupportedColumns
    /\ sampleRows = <<>>
    /\ settings \in [shift_out_cutoff_hours : CutoffChoices, inout_swap : {FALSE}]
    /\ schemaCache = None
    /\ mappingCache = None
    /\ clock = 0
    /\ ret = Idle
    /\ calls = NoCalls
    /\ locks = NoLocks
    /\ appDb = NoAppDb
    /\ limiterHits = NoHits
    /\ answered = <<>>

NextDay ==
    \/ \E t \in SwipeTimes, flag \in Flags : Swipe(t, flag)
    \/ \E d \in 0..(MaxDay - 1), swap \in BOOLEAN : CallBuildSingleDayRecord(d, swap)
    \/ \E s \in 0..(MaxDay - 1), e \in 1..MaxDay, swap \in BOOLEAN :
           s < e /\ CallBuildDailyRecordsForPeriod(s, e, swap)

SpecDay == InitDay /\ [][NextDay]_vars

----------------------------------------------------------------------------
(* Segment accumulation *)

CallComputePeriodSegmentTotals(start, end, swap_applied) ==
    LET schema == GetSchema(schemaCache, tColumns)
        detector == DetectEventVariant(schema)
    IN /\ ret = Idle
       /\ schemaCache' = Some(schema)
       /\ ret' = [op |-> "compute_period_segment_totals",
                  start |-> start, end |-> end,
                  swap_applied |-> swap_applied,
                  value |-> ComputePeriodSegmentTotals(tEvent, schema, start, end,
                                swap_applied, detector)]
       /\ UNCHANGED <<appDb, limiterHits, answered, tEvent, tColumns, sampleRows, settings, calls, locks, mappingCache, clock>>

\* window boundaries the model calls with: the midnights, as the reports do
WindowBounds == {d * SecondsPerDay : d \in 0..MaxDay}

InitSeg ==
    /\ tEvent = <<>>
    /\ tColumns = SupportedColumns
    /\ sampleRows = <<>>
    /\ settings = [shift_out_cutoff_hours |-> 0, inout_swap |-> FALSE]
    /\ schemaCache = None
    /\ mappingCache = None
    /\ clock = 0
    /\ ret = Idle
    /\ calls = NoCalls
    /\ locks = NoLocks
    /\ appDb = NoAppDb
    /\ limiterHits = NoHits
    /\ answered = <<>>

NextSeg ==
    \/ \E t \in SwipeTimes, flag \in Flags : Swipe(t, flag)
    \/ \E s \in WindowBounds, e \in WindowBounds, swap \in BOOLEAN :
           s < e /\ CallComputePeriodSegmentTotals(s, e, swap)

SpecSeg == InitSeg /\ [][NextSeg]_vars

----------------------------------------------------------------------------
(* Polarity heuristic.  sampleRows is what the TOP 200 query over [TEvent]   *)
(* returns; rows that agree in EventTime and flag are kept as one run with   *)
(* its row count, and the loops below take a run's rows together.            *)

\* number of runs in the sample
MaxRuns == 3
\* rows per run
BatchSizes == {20, 30}
\* hours of day of the sampled swipes: 06 (early), 07 (neither), 12 (afternoon)
SampleHours == {6, 7, 12}

SampleLimit == 200
MinValidRows == 50
MappingCacheTtlSeconds == 300

HourOf(t) == (t % SecondsPerDay) \div SecondsPerHour

RECURSIVE RowCount(_)
RowCount(rows) == IF rows = <<>> THEN 0 ELSE rows[1].count + RowCount(Tail(rows))

(* _fetch_recent_mapping_sample *)
FetchRecentMappingSample(rows, schema, limit, detector) ==
    IF IsNone(schema.event_time_col) THEN <<>>
    ELSE IF detector.variant = "UNSUPPORTED" THEN <<>>
    ELSE [i \in 1..Len(rows) |->
             [event_time |-> rows[i].event_time,
              inout_flag |-> NormalizeInoutFlag(
                  IF detector.inout_expr = "NULL" THEN None ELSE rows[i].inout_flag),
              count |-> rows[i].count]]

\* 0 <= hour <= 6
IsEarlyHour(hour) == 0 <= hour /\ hour <= 6
\* 12 <= hour <= 23
IsAfternoonEveningNoLowerBound(hour) == hour <= 23
IsAfternoonEvening(hour) == 12 <= hour /\ hour <= 23

\* part / total > 0.60.  The quotient of two counts below 2^53 is the double
\* nearest the exact ratio, and the literal 0.60 is the double nearest 3/5, so
\* the comparison is that of the exact ratio with 3/5.
RatioAboveOrAt60(part, total) == part * 100 >= total * 60
RatioAbove60(part, total) == part * 100 > total * 60

\* the counting loop of _should_auto_swap over the valid rows
RECURSIVE CountLoop(_, _)
CountLoop(valid, acc) ==
    IF valid = <<>> THEN acc
    ELSE LET row == valid[1]
             hour == HourOf(row.event_time)
             acc2 ==
                 IF row.inout_flag = Some(1)
                 THEN [acc EXCEPT !.in_total = @ + row.count,
                                  !.in_early = IF IsEarlyHour(hour) THEN @ + row.count ELSE @]
                 ELSE IF row.inout_flag = Some(0)
                 THEN [acc EXCEPT !.out_total = @ + row.count,
                                  !.out_afternoon_evening =
                                      IF IsAfternoonEvening(hour) THEN @ + row.count ELSE @]
                 ELSE acc
         IN CountLoop(Tail(valid), acc2)

(* _should_auto_swap *)
ShouldAutoSwap(sample) ==
    LET valid == SelectSeq(sample, LAMBDA row : row.inout_flag \in {Some(0), Some(1)})
    IN IF RowCount(valid) < MinValidRows THEN FALSE
       ELSE LET n == CountLoop(valid, [in_total |-> 0, in_early |-> 0, out_total |-> 0,
                                       out_afternoon_evening |-> 0])
            IN IF n.in_total = 0 \/ n.out_total = 0 THEN FALSE
               ELSE RatioAbove60(n.in_early, n.in_total)
                    /\ RatioAbove60(n.out_afternoon_evening, n.out_total)

(* _get_mapping_state, one caller at a time.  Gives the state returned, the  *)
(* cache after the call and the return statement taken.                      *)
UnsupportedState(detector_variant) ==
    [mappingVariant |-> "unsupported", swapApplied |-> FALSE,
     detectorVariant |-> detector_variant, autoDetected |-> FALSE,
     manualOverride |-> FALSE]

ManualStateAutoDetected(detector_variant) ==
    [mappingVariant |-> "swapped", swapApplied |-> TRUE,
     detectorVariant |-> detector_variant, autoDetected |-> TRUE,
     manualOverride |-> TRUE]

ManualState(detector_variant) ==
    [mappingVariant |-> "swapped", swapApplied |-> TRUE,
     detectorVariant |-> detector_variant, autoDetected |-> FALSE,
     manualOverride |-> TRUE]

CacheIsFreshAtTtl(cache, now, detector_variant) ==
    /\ ~IsNone(cache)
    /\ now - Val(cache).ts <= MappingCacheTtlSeconds
    /\ Val(cache).detectorVariant = detector_variant

CacheIsFresh(cache, now, detector_variant) ==
    /\ ~IsNone(cache)
    /\ now - Val(cache).ts < MappingCacheTtlSeconds
    /\ Val(cache).detectorVariant = detector_variant

\* detector_variant == "UNSUPPORTED"
IsUnsupportedWrongCase(detector_variant) == detector_variant = "unsupported"
IsUnsupported(detector_variant) == detector_variant = "UNSUPPORTED"

\* bool(settings.inout_swap)
ManualOverrideNeverRead(inout_swap) == FALSE
ManualOverrideConfigured(inout_swap) == inout_swap

GetMappingState(detector, inout_swap, cache, now, rows, schema) ==
    IF IsUnsupported(detector.variant)
    THEN [value |-> UnsupportedState(detector.variant), cache |-> cache,
          path |-> "unsupported"]
    ELSE IF ManualOverrideConfigured(inout_swap)
    THEN [value |-> ManualState(detector.variant), cache |-> cache, path |-> "manual"]
    ELSE IF CacheIsFresh(cache, now, detector.variant)
    THEN [value |-> [mappingVariant |-> Val(cache).mappingVariant,
                     swapApplied |-> Val(cache).swapApplied,
                     detectorVariant |-> detector.variant,
                     autoDetected |-> Val(cache).autoDetected,
                     manualOverride |-> FALSE],
          cache |-> cache, path |-> "cache"]
    ELSE LET sample == FetchRecentMappingSample(rows, schema, SampleLimit, detector)
             auto_swapped == ShouldAutoSwap(sample)
             state == [mappingVariant |-> IF auto_swapped THEN "swapped" ELSE "normal",
                       swapApplied |-> auto_swapped,
                       detectorVariant |-> detector.variant,
                       autoDetected |-> auto_swapped,
                       manualOverride |-> FALSE]
         IN [value |-> state,
             cache |-> Some([ts |-> now,
                             mappingVariant |-> state.mappingVariant,
                             swapApplied |-> state.swapApplied,
                             detectorVariant |-> detector.variant,
                             autoDetected |-> state.autoDetected]),
             path |-> "sampled"]

(* Badge swipes system-wide: a run of rows enters the sample *)
RecordBatch(hour, flag, n) ==
    /\ Len(sampleRows) < MaxRuns
    /\ RowCount(sampleRows) + n <= SampleLimit
    /\ sampleRows' = Append(sampleRows,
           [event_time |-> hour * SecondsPerHour, inout_flag |-> flag, count |-> n])
    /\ ret' = Idle
    /\ UNCHANGED <<appDb, limiterHits, answered, tEvent, tColumns, settings, calls, locks, schemaCache, mappingCache, clock>>

CallGetMappingState ==
    LET schema == GetSchema(schemaCache, tColumns)
        detector == DetectEventVariant(schema)
        got == GetMappingState(detector, settings.inout_swap, mappingCache, clock,
                               sampleRows, schema)
    IN /\ ret = Idle
       /\ schemaCache' = Some(schema)
       /\ mappingCache' = got.cache
       /\ ret' = [op |-> "get_mapping_state", value |-> got.value, path |-> got.path]
       /\ UNCHANGED <<appDb, limiterHits, answered, tEvent, tColumns, sampleRows, settings, calls, locks, clock>>

InitSwap ==
    /\ tEvent = <<>>
    /\ tColumns = SupportedColumns
    /\ sampleRows = <<>>
    /\ settings = [shift_out_cutoff_hours |-> 0, inout_swap |-> FALSE]
    /\ schemaCache = None
    /\ mappingCache = None
    /\ clock = 0
    /\ ret = Idle
    /\ calls = NoCalls
    /\ locks = NoLocks
    /\ appDb = NoAppDb
    /\ limiterHits = NoHits
    /\ answered = <<>>

NextSwap ==
    \/ \E hour \in SampleHours, flag \in Flags, n \in BatchSizes : RecordBatch(hour, flag, n)
    \/ CallGetMappingState

SpecSwap == InitSwap /\ [][NextSwap]_vars

----------------------------------------------------------------------------
(* Mapping state over time: the clock advances, the sampled rows change, and *)
(* requests ask for the mapping state                                        *)

\* number of clock steps
MaxTicks == 3
\* seconds the clock advances in one step: half the cache's time to live
ClockSteps == {MappingCacheTtlSeconds \div 2}

\* no in/out column anywhere: nothing is detected
UnsupportedColumns == [event |-> {"CardNo", "EventTime"}, event_type |-> {}]
\* the event row carries a type code joined to the type table
JoinedColumns ==
    [event |-> {"CardNo", "EventTime", "EVENTTYPE"}, event_type |-> {"EventID", "InOut"}]
ColumnChoices == {SupportedColumns, JoinedColumns, UnsupportedColumns}

Run(hour, flag, n) == [event_time |-> hour * SecondsPerHour, inout_flag |-> flag, count |-> n]
\* IN swipes at 06h and OUT swipes at 12h: the inverted pattern
SwappedSample == <<Run(6, Some(1), 30), Run(12, Some(0), 30)>>
\* IN swipes at 07h and OUT swipes at 12h
NormalSample == <<Run(7, Some(1), 30), Run(12, Some(0), 30)>>
MapSamples == {<<>>, SwappedSample, NormalSample}

Tick(dt) ==
    /\ clock + dt <= MaxTicks * (MappingCacheTtlSeconds \div 2)
    /\ clock' = clock + dt
    /\ ret' = Idle
    /\ UNCHANGED <<appDb, limiterHits, answered, tEvent, tColumns, sampleRows, settings, calls, locks, schemaCache, mappingCache>>

Resample(rows) ==
    /\ rows # sampleRows
    /\ sampleRows' = rows
    /\ ret' = Idle
    /\ UNCHANGED <<appDb, limiterHits, answered, tEvent, tColumns, settings, calls, locks, schemaCache, mappingCache, clock>>

InitMap ==
    /\ tEvent = <<>>
    /\ tColumns \in ColumnChoices
    /\ sampleRows \in MapSamples
    /\ settings \in [shift_out_cutoff_hours : {0}, inout_swap : BOOLEAN]
    /\ schemaCache = None
    /\ mappingCache = None
    /\ clock = 0
    /\ ret = Idle
    /\ calls = NoCalls
    /\ locks = NoLocks
    /\ appDb = NoAppDb
    /\ limiterHits = NoHits
    /\ answered = <<>>

NextMap ==
    \/ \E dt \in ClockSteps : Tick(dt)
    \/ \E rows \in MapSamples : Resample(rows)
    \/ CallGetMappingState

SpecMap == InitMap /\ [][NextMap]_vars

----------------------------------------------------------------------------
(* The report handlers.  Dates are day numbers counted from 2024-01-01, the *)
(* calendar is the one of 2024.  The employee identity that the handlers    *)
(* copy into the report is read from [TEmployee] and touches no state kept  *)
(* here.                                                                    *)

\* most swipes of the card in the report runs
MaxReportEvents == 2

DaysInMonth == <<31, 29, 31, 30, 31, 30, 31, 31, 30, 31, 30, 31>>
MonthKeys == <<"2024-01", "2024-02", "2024-03", "2024-04", "2024-05", "2024-06",
               "2024-07", "2024-08", "2024-09", "2024-10", "2024-11", "2024-12">>

RECURSIVE DaysBefore(_)
\* days of 2024 before the first of the month; month 13 is January 2025
DaysBefore(month) == IF month = 1 THEN 0 ELSE DaysBefore(month - 1) + DaysInMonth[month - 1]

\* record["date"][:7], as a month number
MonthOfDayYearOnly(day) == 1
MonthOfDay(day) ==
    CHOOSE m \in 1..Len(DaysInMonth) :
        DaysBefore(m) <= day /\ day < DaysBefore(m) + DaysInMonth[m]

(* _parse_date: strptime(date_value, "%Y-%m-%d"); None stands for the 400 raised *)
ParseDate(date_value) ==
    CASE date_value = "2024-01-01" -> Some(0)
      [] date_value = "2024-1-1" -> Some(0)
      [] date_value = "2024-01-02" -> Some(1)
      [] date_value = "2024-01-31" -> Some(30)
      [] date_value = "2024-02-01" -> Some(31)
      [] OTHER -> None

(* strptime(month_value, "%Y-%m"), as a month number of 2024 *)
ParseMonth(month_value) ==
    CASE month_value = "2024-01" -> Some(1)
      [] month_value = "2024-1" -> Some(1)
      [] month_value = "2024-02" -> Some(2)
      [] month_value = "2024-12" -> Some(12)
      [] OTHER -> None

(* _month_bounds *)
MonthBounds(month_value) ==
    LET start == ParseMonth(month_value)
    IN IF IsNone(start) THEN None
       ELSE Some([start |-> DaysBefore(Val(start)) * SecondsPerDay,
                  end |-> (IF Val(start) = 12 THEN DaysBefore(13)
                           ELSE DaysBefore(Val(start) + 1)) * SecondsPerDay,
                  normalized |-> MonthKeys[Val(start)]])

(* int(year_value) *)
ParseInt(year_value) ==
    CASE year_value = "2024" -> Some(2024)
      [] year_value = "1899" -> Some(1899)
      [] year_value = "2101" -> Some(2101)
      [] OTHER -> None

\* if year_int < 1900 or year_int > 2100:
YearOutOfRangeBelowOnly(year_int) == year_int < 1900
YearOutOfRange(year_int) == year_int < 1900 \/ year_int > 2100

(* _year_bounds *)
YearBounds(year_value) ==
    LET year_int == ParseInt(year_value)
    IN IF IsNone(year_int) THEN None
       ELSE IF YearOutOfRange(Val(year_int)) THEN None
       ELSE Some([start |-> DaysBefore(1) * SecondsPerDay,
                  end |-> DaysBefore(13) * SecondsPerDay,
                  normalized |-> "2024"])

DateInputs == {"2024-01-01", "2024-1-1", "2024-01-02", "2024-02-01", "2024-01-32"}
MonthInputs == {"2024-01", "2024-1", "2024-02", "2024-13"}
YearInputs == {"2024", "1899", "2101", "20x4"}

BadRequest(op, arg) == [op |-> op, arg |-> arg, status |-> 400]

(* fetch_daily_report *)
FetchDailyReport(date_value) ==
    LET selected_date == ParseDate(date_value)
        schema == GetSchema(schemaCache, tColumns)
        detector == DetectEventVariant(schema)
        mapping == GetMappingState(detector, settings.inout_swap, mappingCache, clock,
                                   sampleRows, schema)
        swap_applied == mapping.value.swapApplied
        day_record == BuildSingleDayRecord(tEvent, schema, Val(selected_date), swap_applied,
                          detector, settings.shift_out_cutoff_hours)
        day_start == Val(selected_date) * SecondsPerDay
        day_end == day_start + SecondsPerDay
        period_totals == ComputePeriodSegmentTotals(tEvent, schema, day_start, day_end,
                             swap_applied, detector)
    IN /\ ret = Idle
       /\ IF IsNone(selected_date)
          THEN /\ ret' = BadRequest("fetch_daily_report", date_value)
               /\ UNCHANGED <<appDb, limiterHits, answered, schemaCache, mappingCache>>
          ELSE /\ schemaCache' = Some(schema)
               /\ mappingCache' = mapping.cache
               /\ ret' = [op |-> "fetch_daily_report", arg |-> date_value, status |-> 200,
                          value |-> [date |-> day_record.date,
                                     first_in |-> day_record.first_in,
                                     last_out |-> day_record.last_out,
                                     duration_minutes |-> day_record.duration_minutes,
                                     missing_punch |-> day_record.missing_punch,
                                     totalInMinutes |-> period_totals.totalInMinutes,
                                     totalOutMinutes |-> period_totals.totalOutMinutes,
                                     total_work_minutes |-> day_record.duration_minutes,
                                     mappingVariant |-> mapping.value.mappingVariant,
                                     swapApplied |-> mapping.value.swapApplied]]
       /\ UNCHANGED <<appDb, limiterHits, answered, tEvent, tColumns, sampleRows, settings, calls, locks, clock>>

RECURSIVE SumDurations(_)
\* sum(item["duration_minutes"] or 0 for item in records)
SumDurations(records) ==
    IF records = <<>> THEN 0
    ELSE (IF IsNone(records[1].duration_minutes) THEN 0 ELSE Val(records[1].duration_minutes))
         + SumDurations(Tail(records))

\* total_days = sum(1 for item in records if item.get("first_in"))
TotalDaysAllRecords(records) == Len(records)
TotalDays(records) == Len(SelectSeq(records, LAMBDA item : ~IsNone(item.first_in)))

\* missing_punch_days = sum(1 for item in records if bool(item.get("missing_punch")))
MissingPunchDays(records) == Len(SelectSeq(records, LAMBDA item : item.missing_punch))

(* fetch_monthly_report *)
FetchMonthlyReport(month_value) ==
    LET bounds == MonthBounds(month_value)
        schema == GetSchema(schemaCache, tColumns)
        detector == DetectEventVariant(schema)
        mapping == GetMappingState(detector, settings.inout_swap, mappingCache, clock,
                                   sampleRows, schema)
        swap_applied == mapping.value.swapApplied
    IN /\ ret = Idle
       /\ IF IsNone(bounds)
          THEN /\ ret' = BadRequest("fetch_monthly_report", month_value)
               /\ UNCHANGED <<appDb, limiterHits, answered, schemaCache, mappingCache>>
          ELSE \E records \in {BuildDailyRecordsForPeriod(tEvent, schema, Val(bounds).start,
                                   Val(bounds).end, swap_applied, detector,
                                   settings.shift_out_cutoff_hours)},
                  period_totals \in {ComputePeriodSegmentTotals(tEvent, schema,
                                         Val(bounds).start, Val(bounds).end, swap_applied,
                                         detector)} :
               LET total_minutes == SumDurations(records)
               IN /\ schemaCache' = Some(schema)
                  /\ mappingCache' = mapping.cache
                  /\ ret' = [op |-> "fetch_monthly_report", arg |-> month_value,
                             status |-> 200,
                             value |-> [month |-> Val(bounds).normalized,
                                        records |-> records,
                                        total_days |-> TotalDays(records),
                                        missing_punch_days |-> MissingPunchDays(records),
                                        total_minutes |-> total_minutes,
                                        totalInMinutes |-> period_totals.totalInMinutes,
                                        totalOutMinutes |-> period_totals.totalOutMinutes,
                                        total_work_minutes |-> total_minutes,
                                        mappingVariant |-> mapping.value.mappingVariant,
                                        swapApplied |-> mapping.value.swapApplied]]
       /\ UNCHANGED <<appDb, limiterHits, answered, tEvent, tColumns, sampleRows, settings, calls, locks, clock>>

\* month_map[month_key], created with zero counts on first access
MonthBucket(month_map, month_key) ==
    IF month_key \in DOMAIN month_map THEN month_map[month_key]
    ELSE [worked_days |-> 0, duration_days |-> 0, missing_punch_days |-> 0,
          total_minutes |-> 0]

PutMonth(month_map, month_key, bucket) ==
    [k \in DOMAIN month_map \cup {month_key} |->
        IF k = month_key THEN bucket ELSE month_map[k]]

RECURSIVE MonthMapLoop(_, _, _)
\* the loop over daily_records of fetch_yearly_report
MonthMapLoop(daily_records, i, month_map) ==
    IF i > Len(daily_records) THEN month_map
    ELSE LET record == daily_records[i]
             month_key == MonthOfDay(record.date)
             m1 == IF ~IsNone(record.first_in)
                   THEN PutMonth(month_map, month_key,
                            [MonthBucket(month_map, month_key)
                                EXCEPT !.worked_days = @ + 1])
                   ELSE month_map
             m2 == IF record.missing_punch
                   THEN PutMonth(m1, month_key,
                            [MonthBucket(m1, month_key)
                                EXCEPT !.missing_punch_days = @ + 1])
                   ELSE m1
             m3 == IF IsNone(record.duration_minutes) THEN m2
                   ELSE PutMonth(m2, month_key,
                            [MonthBucket(m2, month_key)
                                EXCEPT !.duration_days = @ + 1,
                                       !.total_minutes = @ + Val(record.duration_minutes)])
         IN MonthMapLoop(daily_records, i + 1, m3)

RECURSIVE SortedKeys(_)
\* sorted(month_map.keys())
SortedKeys(keys) ==
    IF keys = {} THEN <<>>
    ELSE LET k == CHOOSE x \in keys : \A y \in keys : x <= y
         IN <<k>> \o SortedKeys(keys \ {k})

\* one entry of months
MonthEntry(month_map, month_key) ==
    LET bucket == month_map[month_key]
    IN [month |-> MonthKeys[month_key],
        worked_days |-> bucket.worked_days,
        missing_punch_days |-> bucket.missing_punch_days,
        total_minutes |-> bucket.total_minutes,
        average_minutes_per_day |->
            IF bucket.duration_days # 0
            THEN Some(bucket.total_minutes \div bucket.duration_days) ELSE None]

RECURSIVE SumField(_, _)
SumField(months, field) ==
    IF months = <<>> THEN 0
    ELSE (CASE field = "worked_days" -> months[1].worked_days
            [] field = "missing_punch_days" -> months[1].missing_punch_days
            [] OTHER -> months[1].total_minutes)
         + SumField(Tail(months), field)

\* months, in the order of sorted(month_map.keys())
MonthsOf(daily_records) ==
    LET month_map == MonthMapLoop(daily_records, 1, <<>>)
        keys == SortedKeys(DOMAIN month_map)
    IN [i \in 1..Len(keys) |-> MonthEntry(month_map, keys[i])]

(* fetch_yearly_report *)
FetchYearlyReport(year_value) ==
    LET bounds == YearBounds(year_value)
        schema == GetSchema(schemaCache, tColumns)
        detector == DetectEventVariant(schema)
        mapping == GetMappingState(detector, settings.inout_swap, mappingCache, clock,
                                   sampleRows, schema)
        swap_applied == mapping.value.swapApplied
    IN /\ ret = Idle
       /\ IF IsNone(bounds)
          THEN /\ ret' = BadRequest("fetch_yearly_report", year_value)
               /\ UNCHANGED <<appDb, limiterHits, answered, schemaCache, mappingCache>>
          ELSE \E daily_records \in {BuildDailyRecordsForPeriod(tEvent, schema,
                                         Val(bounds).start, Val(bounds).end, swap_applied,
                                         detector, settings.shift_out_cutoff_hours)},
                  period_totals \in {ComputePeriodSegmentTotals(tEvent, schema,
                                         Val(bounds).start, Val(bounds).end, swap_applied,
                                         detector)} :
               \E months \in {MonthsOf(daily_records)} :
                  LET total_minutes == SumField(months, "total_minutes")
                  IN /\ schemaCache' = Some(schema)
                     /\ mappingCache' = mapping.cache
                     /\ ret' = [op |-> "fetch_yearly_report", arg |-> year_value,
                                status |-> 200,
                                value |-> [year |-> Val(bounds).normalized,
                                           months |-> months,
                                           total_worked_days |->
                                               SumField(months, "worked_days"),
                                           missing_punch_days |->
                                               SumField(months, "missing_punch_days"),
                                           total_minutes |-> total_minutes,
                                           totalInMinutes |-> period_totals.totalInMinutes,
                                           totalOutMinutes |-> period_totals.totalOutMinutes,
                                           total_work_minutes |-> total_minutes,
                                           mappingVariant |-> mapping.value.mappingVariant,
                                           swapApplied |-> mapping.value.swapApplied]]
       /\ UNCHANGED <<appDb, limiterHits, answered, tEvent, tColumns, sampleRows, settings, calls, locks, clock>>

\* swipes of the card around the turn of January: two overnight shifts
ReportSwipeTimes ==
    {DaysBefore(1) * SecondsPerDay + 22 * SecondsPerHour + 30,
     (DaysBefore(1) + 1) * SecondsPerDay + 3 * SecondsPerHour,
     (DaysBefore(2) - 1) * SecondsPerDay + 22 * SecondsPerHour + 30,
     DaysBefore(2) * SecondsPerDay + 3 * SecondsPerHour}

ReportSwipe(t, flag) ==
    /\ Len(tEvent) < MaxReportEvents
    /\ Swipe(t, flag)

InitReport ==
    /\ tEvent = <<>>
    /\ tColumns \in {SupportedColumns, UnsupportedColumns}
    /\ sampleRows \in {<<>>, SwappedSample}
    /\ settings \in [shift_out_cutoff_hours : {6}, inout_swap : BOOLEAN]
    /\ schemaCache = None
    /\ mappingCache = None
    /\ clock = 0
    /\ ret = Idle
    /\ calls = NoCalls
    /\ locks = NoLocks
    /\ appDb = NoAppDb
    /\ limiterHits = NoHits
    /\ answered = <<>>

NextReport ==
    \/ \E t \in ReportSwipeTimes, flag \in {Some(0), Some(1)} : ReportSwipe(t, flag)
    \/ \E date_value \in DateInputs : FetchDailyReport(date_value)
    \/ \E month_value \in MonthInputs : FetchMonthlyReport(month_value)
    \/ \E year_value \in YearInputs : FetchYearlyReport(year_value)

SpecReport == InitReport /\ [][NextReport]_vars

----------------------------------------------------------------------------
(* _get_mapping_state(detector=...) with the detector handed in by the caller *)

\* detectors a caller can hand in
DetectorChoices ==
    {DetectEventVariant(ResolveSchema(columns)) : columns \in {SupportedColumns, JoinedColumns}}

CallGetMappingStateFor(detector) ==
    LET schema == GetSchema(schemaCache, tColumns)
        got == GetMappingState(detector, settings.inout_swap, mappingCache, clock,
                               sampleRows, schema)
    IN /\ ret = Idle
       /\ schemaCache' = IF got.path = "sampled" THEN Some(schema) ELSE schemaCache
       /\ mappingCache' = got.cache
       /\ ret' = [op |-> "get_mapping_state", detector |-> detector, value |-> got.value,
                  path |-> got.path]
       /\ UNCHANGED <<appDb, limiterHits, answered, tEvent, tColumns, sampleRows, settings, calls, locks, clock>>

InitTtl ==
    /\ tEvent = <<>>
    /\ tColumns = JoinedColumns
    /\ sampleRows \in MapSamples
    /\ settings = [shift_out_cutoff_hours |-> 0, inout_swap |-> FALSE]
    /\ schemaCache = None
    /\ mappingCache = None
    /\ clock = 0
    /\ ret = Idle
    /\ calls = NoCalls
    /\ locks = NoLocks
    /\ appDb = NoAppDb
    /\ limiterHits = NoHits
    /\ answered = <<>>

NextTtl ==
    \/ \E dt \in ClockSteps : Tick(dt)
    \/ \E rows \in MapSamples : Resample(rows)
    \/ \E detector \in DetectorChoices : CallGetMappingStateFor(detector)

SpecTtl == InitTtl /\ [][NextTtl]_vars

----------------------------------------------------------------------------
(* _detect_event_variant over the column sets an installation can have *)

\* no two columns of a table differ in case only
DistinctIgnoringCase(columns) ==
    \A c, d \in columns : Lower(c) = Lower(d) => c = d

EventColumnSets ==
    {{"CardNo", "EventTime"} \cup extra :
        extra \in {s \in SUBSET {"EventType", "EVENTTYPE", "EventID", "eventid",
                                 "InOut", "INOUT", "Event", "event"} :
                      DistinctIgnoringCase(s)}}

EventTypeColumnSets ==
    {s \in SUBSET {"EventID", "eventid", "InOut", "INOUT", "Event", "event"} :
        DistinctIgnoringCase(s)}

CallDetectEventVariant ==
    LET schema == GetSchema(schemaCache, tColumns)
    IN /\ ret = Idle
       /\ schemaCache' = Some(schema)
       /\ ret' = [op |-> "detect_event_variant", value |-> DetectEventVariant(schema)]
       /\ UNCHANGED <<appDb, limiterHits, answered, tEvent, tColumns, sampleRows, settings, calls, locks, mappingCache,
                      clock>>

InitDetect ==
    /\ tEvent = <<>>
    /\ tColumns \in [event : EventColumnSets, event_type : EventTypeColumnSets]
    /\ sampleRows = <<>>
    /\ settings = [shift_out_cutoff_hours |-> 0, inout_swap |-> FALSE]
    /\ schemaCache = None
    /\ mappingCache = None
    /\ clock = 0
    /\ ret = Idle
    /\ calls = NoCalls
    /\ locks = NoLocks
    /\ appDb = NoAppDb
    /\ limiterHits = NoHits
    /\ answered = <<>>

NextDetect == CallDetectEventVariant

SpecDetect == InitDetect /\ [][NextDetect]_vars

----------------------------------------------------------------------------
(* fetch_monthly_report over months of whole working days *)

MaxMonthDays == 3

\* swipes of one day, at offsets from its midnight: nothing, a shift of 480
\* minutes, a shift of 510 minutes, an OUT alone, an IN alone, an unknown flag
DayPatterns ==
    {<<>>,
     <<[at |-> 8 * SecondsPerHour, flag |-> Some(1)],
       [at |-> 16 * SecondsPerHour, flag |-> Some(0)]>>,
     <<[at |-> 8 * SecondsPerHour, flag |-> Some(1)],
       [at |-> 16 * SecondsPerHour + 30 * SecondsPerMinute, flag |-> Some(0)]>>,
     <<[at |-> 16 * SecondsPerHour, flag |-> Some(0)]>>,
     <<[at |-> 8 * SecondsPerHour, flag |-> Some(1)]>>,
     <<[at |-> 8 * SecondsPerHour, flag |-> None]>>}

RowsOfDay(day, pattern) ==
    [i \in 1..Len(pattern) |-> [event_time |-> day * SecondsPerDay + pattern[i].at,
                                inout_flag |-> pattern[i].flag]]

RECURSIVE RowsOfDays(_, _)
RowsOfDays(patterns, day) ==
    IF patterns = <<>> THEN <<>>
    ELSE RowsOfDay(day, Head(patterns)) \o RowsOfDays(Tail(patterns), day + 1)

\* TEvent holding the first MaxMonthDays days of January
MonthTables == {RowsOfDays(patterns, 0) : patterns \in [1..MaxMonthDays -> DayPatterns]}

InitMonth ==
    /\ tEvent \in MonthTables
    /\ tColumns = SupportedColumns
    /\ sampleRows = <<>>
    /\ settings = [shift_out_cutoff_hours |-> 6, inout_swap |-> FALSE]
    /\ schemaCache = None
    /\ mappingCache = None
    /\ clock = 0
    /\ ret = Idle
    /\ calls = NoCalls
    /\ locks = NoLocks
    /\ appDb = NoAppDb
    /\ limiterHits = NoHits
    /\ answered = <<>>

NextMonth == \E month_value \in MonthInputs : FetchMonthlyReport(month_value)

SpecMonth == InitMonth /\ [][NextMonth]_vars

----------------------------------------------------------------------------
(* Upstream failures: the store refuses a query with DBOperationalError.     *)
(* A request runs _detect_event_variant, then _get_mapping_state with the    *)
(* detector it got; neither catches the error.                               *)

Raised(op) == [op |-> op, status |-> "DBOperationalError"]

\* _get_schema: the error leaves at _resolve_schema, before the cache is set
SchemaCacheOnError(cache) == cache

\* _get_mapping_state: the error leaves at _fetch_recent_mapping_sample, before
\* the cache is written; not an empty sample cached as "normal"
MappingCacheOnErrorAsEmptySample(cache, now, detector_variant) ==
    Some([ts |-> now, mappingVariant |-> "normal", swapApplied |-> FALSE,
          detectorVariant |-> detector_variant, autoDetected |-> FALSE])
MappingCacheOnError(cache, now, detector_variant) == cache

\* _detect_event_variant when the schema has to be resolved and the query fails
DetectEventVariantFails ==
    /\ ret = Idle
    /\ IsNone(schemaCache)
    /\ schemaCache' = SchemaCacheOnError(schemaCache)
    /\ ret' = Raised("detect_event_variant")
    /\ UNCHANGED <<appDb, limiterHits, answered, tEvent, tColumns, sampleRows, settings, calls, locks, mappingCache,
                   clock>>

\* _get_mapping_state(detector=detector) of the request that holds the detector
GetMappingStateWithDetector ==
    /\ ret.op = "detect_event_variant"
    /\ ret # Raised("detect_event_variant")
    /\ LET detector == ret.value
           got == GetMappingState(detector, settings.inout_swap, mappingCache, clock,
                                  sampleRows, Val(schemaCache))
       IN /\ mappingCache' = got.cache
          /\ ret' = [op |-> "get_mapping_state", detector |-> detector,
                     value |-> got.value, path |-> got.path]
    /\ UNCHANGED <<appDb, limiterHits, answered, tEvent, tColumns, sampleRows, settings, calls, locks, schemaCache,
                   clock>>

\* the same call when the sample query fails
GetMappingStateFails ==
    /\ ret.op = "detect_event_variant"
    /\ ret # Raised("detect_event_variant")
    /\ LET detector == ret.value
           got == GetMappingState(detector, settings.inout_swap, mappingCache, clock,
                                  sampleRows, Val(schemaCache))
       IN /\ got.path = "sampled"
          /\ ~IsNone(Val(schemaCache).event_time_col)
          /\ mappingCache' = MappingCacheOnError(mappingCache, clock, detector.variant)
          /\ ret' = [op |-> "get_mapping_state", detector |-> detector,
                     status |-> "DBOperationalError"]
    /\ UNCHANGED <<appDb, limiterHits, answered, tEvent, tColumns, sampleRows, settings, calls, locks, schemaCache,
                   clock>>

InitFail == InitMap

NextFail ==
    \/ \E dt \in ClockSteps : Tick(dt)
    \/ \E rows \in MapSamples : Resample(rows)
    \/ CallDetectEventVariant
    \/ DetectEventVariantFails
    \/ GetMappingStateWithDetector
    \/ GetMappingStateFails

SpecFail == InitFail /\ [][NextFail]_vars

----------------------------------------------------------------------------
(* Reports of concurrent requests, one step for each statement that reads    *)
(* shared state: detector and mapping state, then the day records, then the  *)
(* period totals and the return.  calls[t] holds the locals of request t.    *)

ReportOps == {"fetch_daily_report", "fetch_monthly_report", "fetch_yearly_report"}

\* the requests in flight: one report and one that may replace the cached state
Requests == {t \in Threads : t <= 2}

\* the period of the report on 2024-01-01, 2024-01 and 2024
ReportPeriod(op) ==
    IF op = "fetch_daily_report" THEN [start |-> 0, end |-> SecondsPerDay]
    ELSE IF op = "fetch_monthly_report" THEN Val(MonthBounds("2024-01"))
    ELSE Val(YearBounds("2024"))

\* swap_applied=bool(mapping["swapApplied"]) of the mapping the request holds
SwapAppliedFromCache(call, cache) ==
    IF IsNone(cache) THEN FALSE ELSE Val(cache).swapApplied
SwapApplied(call, cache) == call.mapping.swapApplied

\* detector = _detect_event_variant(...); mapping = _get_mapping_state(detector=detector)
ReportStart(t, op) ==
    LET schema == GetSchema(schemaCache, tColumns)
        detector == DetectEventVariant(schema)
        got == GetMappingState(detector, settings.inout_swap, mappingCache, clock,
                               sampleRows, schema)
    IN /\ calls[t] = NoCall
       /\ schemaCache' = Some(schema)
       /\ mappingCache' = got.cache
       /\ calls' = [calls EXCEPT ![t] = [pc |-> "mapped", op |-> op,
                                         detector |-> detector, mapping |-> got.value]]
       /\ ret' = Idle
       /\ UNCHANGED <<appDb, limiterHits, answered, tEvent, tColumns, sampleRows, settings, locks, clock>>

\* _build_single_day_record / _build_daily_records_for_period
ReportBuildRecords(t) ==
    LET call == calls[t]
        period == ReportPeriod(call.op)
        swap_applied == SwapApplied(call, mappingCache)
    IN /\ call.pc = "mapped"
       /\ \E records \in {IF call.op = "fetch_daily_report"
                          THEN <<BuildSingleDayRecord(tEvent, Val(schemaCache),
                                     DateOf(period.start), swap_applied, call.detector,
                                     settings.shift_out_cutoff_hours)>>
                          ELSE BuildDailyRecordsForPeriod(tEvent, Val(schemaCache),
                                   period.start, period.end, swap_applied, call.detector,
                                   settings.shift_out_cutoff_hours)} :
            calls' = [calls EXCEPT ![t] =
                         [pc |-> "listed", op |-> call.op, detector |-> call.detector,
                          mapping |-> call.mapping, records |-> records,
                          records_with |-> [detector |-> call.detector,
                                            swap_applied |-> swap_applied]]]
       /\ ret' = Idle
       /\ UNCHANGED <<appDb, limiterHits, answered, tEvent, tColumns, sampleRows, settings, locks, clock, schemaCache,
                      mappingCache>>

\* _compute_period_segment_totals and the return; `used` records the
\* arguments the two computations were called with
ReportReturn(t) ==
    LET call == calls[t]
        period == ReportPeriod(call.op)
        swap_applied == SwapApplied(call, mappingCache)
    IN /\ call.pc = "listed"
       /\ \E period_totals \in {ComputePeriodSegmentTotals(tEvent, Val(schemaCache),
                                    period.start, period.end, swap_applied,
                                    call.detector)} :
            ret' = [op |-> call.op, status |-> 200, thread |-> t,
                    value |-> [records |-> call.records,
                               totalInMinutes |-> period_totals.totalInMinutes,
                               totalOutMinutes |-> period_totals.totalOutMinutes,
                               mappingVariant |-> call.mapping.mappingVariant,
                               swapApplied |-> call.mapping.swapApplied],
                    used |-> [records_with |-> call.records_with,
                              totals_with |-> [detector |-> call.detector,
                                               swap_applied |-> swap_applied]]]
       /\ calls' = [calls EXCEPT ![t] = NoCall]
       /\ UNCHANGED <<appDb, limiterHits, answered, tEvent, tColumns, sampleRows, settings, locks, clock, schemaCache,
                      mappingCache>>

\* one shift on 2024-01-01, from 08:00 to 16:00
ShiftTable ==
    <<[event_time |-> 8 * SecondsPerHour, inout_flag |-> Some(1)],
      [event_time |-> 16 * SecondsPerHour, inout_flag |-> Some(0)]>>

InitConc ==
    /\ tEvent = ShiftTable
    /\ tColumns = SupportedColumns
    /\ sampleRows \in {NormalSample, SwappedSample}
    /\ settings = [shift_out_cutoff_hours |-> 6, inout_swap |-> FALSE]
    /\ schemaCache = None
    /\ mappingCache = None
    /\ clock = 0
    /\ ret = Idle
    /\ calls = NoCalls
    /\ locks = NoLocks
    /\ appDb = NoAppDb
    /\ limiterHits = NoHits
    /\ answered = <<>>

NextConc ==
    \/ \E dt \in ClockSteps : Tick(dt)
    \/ \E rows \in {NormalSample, SwappedSample} : Resample(rows)
    \/ \E t \in Requests, op \in ReportOps : ReportStart(t, op)
    \/ \E t \in Requests : ReportBuildRecords(t)
    \/ \E t \in Requests : ReportReturn(t)

SpecConc == InitConc /\ [][NextConc]_vars

----------------------------------------------------------------------------
(* The InOutFlag expression over raw column values.  A value is None (NULL) *)
(* or Some(text), text being the characters of CONVERT(VARCHAR(255), value). *)

LowerCaseLetters == <<"a", "b", "c", "d", "e", "f", "g", "h", "i", "j", "k", "l", "m", "n", "o", "p", "q", "r", "s", "t", "u", "v", "w", "x", "y", "z">>
UpperCaseLetters == <<"A", "B", "C", "D", "E", "F", "G", "H", "I", "J", "K", "L", "M", "N", "O", "P", "Q", "R", "S", "T", "U", "V", "W", "X", "Y", "Z">>

UpperChar(ch) ==
    IF \E i \in 1..Len(LowerCaseLetters) : LowerCaseLetters[i] = ch
    THEN UpperCaseLetters[CHOOSE i \in 1..Len(LowerCaseLetters) : LowerCaseLetters[i] = ch]
    ELSE ch

\* UPPER(text)
SqlUpper(text) == [i \in 1..Len(text) |-> UpperChar(text[i])]

RECURSIVE SqlLTrim(_)
SqlLTrim(text) ==
    IF text # <<>> /\ Head(text) = " " THEN SqlLTrim(Tail(text)) ELSE text

RECURSIVE SqlRTrim(_)
SqlRTrim(text) ==
    IF text # <<>> /\ text[Len(text)] = " "
    THEN SqlRTrim(SubSeq(text, 1, Len(text) - 1)) ELSE text

\* text LIKE 'prefix%'
SqlLikePrefix(text, prefix) ==
    Len(text) >= Len(prefix) /\ SubSeq(text, 1, Len(prefix)) = prefix

Digits == <<"0", "1", "2", "3", "4", "5", "6", "7", "8", "9">>

IsDigit(ch) == \E i \in 1..Len(Digits) : Digits[i] = ch

DigitValue(ch) == (CHOOSE i \in 1..Len(Digits) : Digits[i] = ch) - 1

RECURSIVE DigitsValue(_, _)
DigitsValue(text, acc) ==
    IF text = <<>> THEN acc
    ELSE DigitsValue(Tail(text), acc * Len(Digits) + DigitValue(Head(text)))

\* the number a value stands for in a comparison with a number; a text that
\* is not a number equals no number
SqlNumber(text) ==
    LET unsigned == IF text # <<>> /\ Head(text) = "-" THEN Tail(text) ELSE text
    IN IF unsigned = <<>> \/ \E i \in 1..Len(unsigned) : ~IsDigit(unsigned[i]) THEN None
       ELSE IF Head(text) = "-" THEN Some(0 - DigitsValue(unsigned, 0))
       ELSE Some(DigitsValue(unsigned, 0))

\* raw_expr = n
SqlEquals(raw, n) == ~IsNone(raw) /\ SqlNumber(Val(raw)) = Some(n)

\* UPPER(LTRIM(RTRIM(CONVERT(VARCHAR(255), raw_expr)))) IN (tokens)
SqlTokenIn(raw, tokens) ==
    ~IsNone(raw) /\ SqlUpper(SqlLTrim(SqlRTrim(Val(raw)))) \in tokens

\* CONVERT(VARCHAR(255), expr) LIKE 'prefix%'
SqlLike(raw, prefix) == ~IsNone(raw) /\ SqlLikePrefix(Val(raw), prefix)

InTokens == {<<"I", "N">>, <<"I">>, <<"E", "N", "T", "R", "Y">>, <<"E", "N", "T", "E", "R">>}
OutTokens == {<<"O", "U", "T">>, <<"O">>, <<"E", "X", "I", "T">>, <<"L", "E", "A", "V", "E">>}
EntryPrefix == <<"E", "n", "t", "r", "y">>
ExitPrefix == <<"E", "x", "i", "t">>

(* _entry_exit_case *)
EntryExitCase(expr) ==
    IF SqlLike(expr, EntryPrefix) THEN Some(1)
    ELSE IF SqlLike(expr, ExitPrefix) THEN Some(0)
    ELSE None

(* _normalized_inout_case; has_fallback: fallback_text_expr was given *)
NormalizedInoutCase(raw_expr, has_fallback, fallback_text_expr) ==
    IF SqlEquals(raw_expr, 1) THEN Some(1)
    ELSE IF SqlEquals(raw_expr, 0) THEN Some(0)
    ELSE IF SqlEquals(raw_expr, 2) THEN Some(0)
    ELSE IF SqlEquals(raw_expr, 0 - 1) THEN Some(0)
    ELSE IF SqlTokenIn(raw_expr, InTokens) THEN Some(1)
    ELSE IF SqlTokenIn(raw_expr, OutTokens) THEN Some(0)
    ELSE IF SqlLike(raw_expr, EntryPrefix) THEN Some(1)
    ELSE IF SqlLike(raw_expr, ExitPrefix) THEN Some(0)
    ELSE IF has_fallback /\ SqlLike(fallback_text_expr, EntryPrefix) THEN Some(1)
    ELSE IF has_fallback /\ SqlLike(fallback_text_expr, ExitPrefix) THEN Some(0)
    ELSE None

RawColumns == {"e.InOut", "e.Event", "et.InOut", "et.Event"}

\* the detector's inout_expr evaluated on one joined row
EvalInoutExpr(detector, row) ==
    IF detector.inout_expr = "NORMALIZED"
    THEN NormalizedInoutCase(row[detector.raw_expr],
                             detector.fallback_text_expr # "none",
                             IF detector.fallback_text_expr # "none"
                             THEN row[detector.fallback_text_expr] ELSE None)
    ELSE IF detector.inout_expr = "ENTRY_EXIT"
    THEN EntryExitCase(row[detector.raw_expr])
    ELSE None

RawValues ==
    {None} \cup {Some(text) : text \in {
        <<"1">>,
        <<"0">>,
        <<"2">>,
        <<"-", "1">>,
        <<"3">>,
        <<"I", "N">>,
        <<"i">>,
        <<" ", "E", "n", "t", "r", "y", " ">>,
        <<"e", "n", "t", "e", "r">>,
        <<"O", "U", "T">>,
        <<"o">>,
        <<"e", "x", "i", "t">>,
        <<"L", "e", "a", "v", "e">>,
        <<"E", "n", "t", "r", "y", " ", "g", "a", "t", "e">>,
        <<"E", "x", "i", "t", " ", "d", "o", "o", "r">>,
        <<"D", "o", "o", "r", " ", "f", "o", "r", "c", "e", "d">>}}

LabelValues ==
    {None} \cup {Some(text) : text \in {
        <<"E", "n", "t", "r", "y", " ", "g", "a", "t", "e">>,
        <<"E", "x", "i", "t", " ", "d", "o", "o", "r">>,
        <<"D", "o", "o", "r", " ", "f", "o", "r", "c", "e", "d">>}}

\* one schema for each expression _detect_event_variant builds
NormColumnChoices ==
    {[event |-> {"CardNo", "EventTime"} \cup e, event_type |-> t] :
        e \in {{"EventType"}, {"EventID"}}, t \in {{"EventID", "InOut"},
                                                  {"EventID", "InOut", "Event"},
                                                  {"EventID", "Event"}, {"EventID"}}}
    \cup {[event |-> {"CardNo", "EventTime"} \cup e, event_type |-> {}] :
             e \in {{"InOut"}, {"InOut", "Event"}, {"Event"}, {}}}

\* rows of the joined tables: a value in every column the expression reads
RawRows(detector) ==
    {[c \in RawColumns |-> IF c = detector.raw_expr THEN raw
                           ELSE IF c = detector.fallback_text_expr THEN label
                           ELSE None] :
        raw \in RawValues, label \in LabelValues}

(* the InOutFlag of the row _fetch_events_for_card selects, normalized *)
CallFetchInOutFlag ==
    LET schema == GetSchema(schemaCache, tColumns)
        detector == DetectEventVariant(schema)
    IN /\ ret = Idle
       /\ tEvent # <<>>
       /\ schemaCache' = Some(schema)
       /\ ret' = [op |-> "inout_flag", detector |-> detector,
                  value |-> IF detector.variant = "UNSUPPORTED" THEN None
                            ELSE NormalizeInoutFlag(EvalInoutExpr(detector, tEvent[1]))]
       /\ UNCHANGED <<appDb, limiterHits, answered, tEvent, tColumns, sampleRows, settings, calls, locks, mappingCache,
                      clock>>

InitNorm ==
    /\ tColumns \in NormColumnChoices
    /\ \E row \in RawRows(DetectEventVariant(ResolveSchema(tColumns))) : tEvent = <<row>>
    /\ sampleRows = <<>>
    /\ settings = [shift_out_cutoff_hours |-> 0, inout_swap |-> FALSE]
    /\ schemaCache = None
    /\ mappingCache = None
    /\ clock = 0
    /\ ret = Idle
    /\ calls = NoCalls
    /\ locks = NoLocks
    /\ appDb = NoAppDb
    /\ limiterHits = NoHits
    /\ answered = <<>>

NextNorm == CallFetchInOutFlag

SpecNorm == InitNorm /\ [][NextNorm]_vars

----------------------------------------------------------------------------
(* _get_schema called by concurrent request threads.  Each statement that    *)
(* touches shared state is one step; the table definitions can change while  *)
(* a thread is resolving.                                                    *)

SetCall(t, pc, resolved, result) ==
    calls' = [calls EXCEPT ![t] = [pc |-> pc, resolved |-> resolved, result |-> result]]

\* the second locked block: if _SCHEMA_CACHE is None: _SCHEMA_CACHE = resolved
InstallSchemaLastWins(cache, resolved) == Some(resolved)
InstallSchema(cache, resolved) == IF IsNone(cache) THEN Some(resolved) ELSE cache

\* a thread enters _get_schema
GetSchemaCall(t) ==
    /\ calls[t].pc \in {"idle", "returned", "raised"}
    /\ SetCall(t, "lock_check", None, None)
    /\ UNCHANGED <<appDb, limiterHits, answered, tEvent, tColumns, sampleRows, settings, schemaCache, mappingCache, clock,
                   ret, locks>>

\* with _SCHEMA_LOCK: (first block)
GetSchemaLockCheck(t) ==
    /\ calls[t].pc = "lock_check"
    /\ IsNone(locks.schema)
    /\ locks' = [locks EXCEPT !.schema = Some(t)]
    /\ SetCall(t, "check", None, None)
    /\ UNCHANGED <<appDb, limiterHits, answered, tEvent, tColumns, sampleRows, settings, schemaCache, mappingCache, clock,
                   ret>>

\* if _SCHEMA_CACHE is not None: return _SCHEMA_CACHE; the lock is released
GetSchemaCheck(t) ==
    /\ calls[t].pc = "check"
    /\ locks.schema = Some(t)
    /\ locks' = [locks EXCEPT !.schema = None]
    /\ IF ~IsNone(schemaCache)
       THEN SetCall(t, "returned", None, schemaCache)
       ELSE SetCall(t, "query", None, None)
    /\ UNCHANGED <<appDb, limiterHits, answered, tEvent, tColumns, sampleRows, settings, schemaCache, mappingCache, clock,
                   ret>>

\* with get_cursor() as cursor: resolved = _resolve_schema(cursor)
GetSchemaQuery(t) ==
    /\ calls[t].pc = "query"
    /\ SetCall(t, "lock_install", Some(ResolveSchema(tColumns)), None)
    /\ UNCHANGED <<appDb, limiterHits, answered, tEvent, tColumns, sampleRows, settings, schemaCache, mappingCache, clock,
                   ret, locks>>

\* with _SCHEMA_LOCK: (second block)
GetSchemaLockInstall(t) ==
    /\ calls[t].pc = "lock_install"
    /\ IsNone(locks.schema)
    /\ locks' = [locks EXCEPT !.schema = Some(t)]
    /\ SetCall(t, "install", calls[t].resolved, None)
    /\ UNCHANGED <<appDb, limiterHits, answered, tEvent, tColumns, sampleRows, settings, schemaCache, mappingCache, clock,
                   ret>>

\* the double-checked write and the return; the lock is released
GetSchemaInstall(t) ==
    /\ calls[t].pc = "install"
    /\ locks.schema = Some(t)
    /\ schemaCache' = InstallSchema(schemaCache, Val(calls[t].resolved))
    /\ locks' = [locks EXCEPT !.schema = None]
    /\ SetCall(t, "returned", calls[t].resolved, schemaCache')
    /\ UNCHANGED <<appDb, limiterHits, answered, tEvent, tColumns, sampleRows, settings, mappingCache, clock, ret>>

\* the tables are altered: INFORMATION_SCHEMA lists other columns from now on
AlterTable(columns) ==
    /\ columns # tColumns
    /\ tColumns' = columns
    /\ UNCHANGED <<appDb, limiterHits, answered, tEvent, sampleRows, settings, schemaCache, mappingCache, clock, ret, calls,
                   locks>>

InitSchema ==
    /\ tEvent = <<>>
    /\ tColumns \in ColumnChoices
    /\ sampleRows = <<>>
    /\ settings = [shift_out_cutoff_hours |-> 0, inout_swap |-> FALSE]
    /\ schemaCache = None
    /\ mappingCache = None
    /\ clock = 0
    /\ ret = Idle
    /\ calls = NoCalls
    /\ locks = NoLocks
    /\ appDb = NoAppDb
    /\ limiterHits = NoHits
    /\ answered = <<>>

NextSchema ==
    \/ \E t \in Threads : GetSchemaCall(t)
    \/ \E t \in Threads : GetSchemaLockCheck(t)
    \/ \E t \in Threads : GetSchemaCheck(t)
    \/ \E t \in Threads : GetSchemaQuery(t)
    \/ \E t \in Threads : GetSchemaLockInstall(t)
    \/ \E t \in Threads : GetSchemaInstall(t)
    \/ \E columns \in ColumnChoices : AlterTable(columns)

SpecSchema == InitSchema /\ [][NextSchema]_vars

----------------------------------------------------------------------------
(* _get_schema and _get_mapping_state of concurrent requests with their      *)
(* locks.  A request resolves the schema, then asks for the mapping state;   *)
(* a query may fail, and may take forever.                                   *)

\* leaving a `with _MAPPING_LOCK:` block
ExitMappingLockHeld(l) == l
ExitMappingLock(l) == [l EXCEPT !.mapping = None]

\* the locals of _get_mapping_state
MappingCall(pc, now, detector, state) ==
    [pc |-> pc, resolved |-> None, result |-> None, now |-> now, detector |-> detector,
     state |-> state]

\* resolved = _resolve_schema(cursor) raises
GetSchemaQueryFails(t) ==
    /\ calls[t].pc = "query"
    /\ SetCall(t, "raised", None, None)
    /\ UNCHANGED <<appDb, limiterHits, answered, tEvent, tColumns, sampleRows, settings, schemaCache, mappingCache, clock,
                   ret, locks>>

\* _get_mapping_state is entered with the detector of the schema just returned
\* (supported, no manual override): now = time.time()
GetMappingStateCall(t) ==
    /\ calls[t].pc = "returned"
    /\ LET detector == DetectEventVariant(Val(calls[t].result))
       IN /\ ~IsUnsupported(detector.variant)
          /\ ~ManualOverrideConfigured(settings.inout_swap)
          /\ calls' = [calls EXCEPT ![t] = MappingCall("m_lock_read", clock, detector, None)]
    /\ UNCHANGED <<appDb, limiterHits, answered, tEvent, tColumns, sampleRows, settings, schemaCache, mappingCache, clock,
                   ret, locks>>

\* with _MAPPING_LOCK: (first block)
GetMappingStateLockRead(t) ==
    /\ calls[t].pc = "m_lock_read"
    /\ IsNone(locks.mapping)
    /\ locks' = [locks EXCEPT !.mapping = Some(t)]
    /\ calls' = [calls EXCEPT ![t].pc = "m_read"]
    /\ UNCHANGED <<appDb, limiterHits, answered, tEvent, tColumns, sampleRows, settings, schemaCache, mappingCache, clock,
                   ret>>

\* the cache test; a usable entry is returned, and the block is left
GetMappingStateRead(t) ==
    /\ calls[t].pc = "m_read"
    /\ locks.mapping = Some(t)
    /\ locks' = ExitMappingLock(locks)
    /\ IF CacheIsFresh(mappingCache, calls[t].now, calls[t].detector.variant)
       THEN calls' = [calls EXCEPT ![t] =
                         MappingCall("m_returned", calls[t].now, calls[t].detector,
                             Some([mappingVariant |-> Val(mappingCache).mappingVariant,
                                   swapApplied |-> Val(mappingCache).swapApplied,
                                   detectorVariant |-> calls[t].detector.variant,
                                   autoDetected |-> Val(mappingCache).autoDetected,
                                   manualOverride |-> FALSE]))]
       ELSE calls' = [calls EXCEPT ![t].pc = "m_schema_lock"]
    /\ UNCHANGED <<appDb, limiterHits, answered, tEvent, tColumns, sampleRows, settings, schemaCache, mappingCache, clock,
                   ret>>

\* _fetch_recent_mapping_sample: schema = _get_schema(), with _SCHEMA_LOCK:
GetMappingStateSchemaLock(t) ==
    /\ calls[t].pc = "m_schema_lock"
    /\ IsNone(locks.schema)
    /\ locks' = [locks EXCEPT !.schema = Some(t)]
    /\ calls' = [calls EXCEPT ![t].pc = "m_schema_read"]
    /\ UNCHANGED <<appDb, limiterHits, answered, tEvent, tColumns, sampleRows, settings, schemaCache, mappingCache, clock,
                   ret>>

\* the schema is cached by now: return _SCHEMA_CACHE, the block is left
GetMappingStateSchemaRead(t) ==
    /\ calls[t].pc = "m_schema_read"
    /\ locks.schema = Some(t)
    /\ ~IsNone(schemaCache)
    /\ locks' = [locks EXCEPT !.schema = None]
    /\ calls' = [calls EXCEPT ![t].pc = "m_query"]
    /\ UNCHANGED <<appDb, limiterHits, answered, tEvent, tColumns, sampleRows, settings, schemaCache, mappingCache, clock,
                   ret>>

\* the sample query and _should_auto_swap
GetMappingStateQuery(t) ==
    /\ calls[t].pc = "m_query"
    /\ \E auto_swapped \in {ShouldAutoSwap(FetchRecentMappingSample(sampleRows,
                                Val(schemaCache), SampleLimit, calls[t].detector))} :
          calls' = [calls EXCEPT ![t] =
                       MappingCall("m_lock_write", calls[t].now, calls[t].detector,
                           Some([mappingVariant |-> IF auto_swapped THEN "swapped"
                                                    ELSE "normal",
                                 swapApplied |-> auto_swapped,
                                 detectorVariant |-> calls[t].detector.variant,
                                 autoDetected |-> auto_swapped,
                                 manualOverride |-> FALSE]))]
    /\ UNCHANGED <<appDb, limiterHits, answered, tEvent, tColumns, sampleRows, settings, schemaCache, mappingCache, clock,
                   ret, locks>>

\* the sample query raises
GetMappingStateQueryFails(t) ==
    /\ calls[t].pc = "m_query"
    /\ SetCall(t, "raised", None, None)
    /\ UNCHANGED <<appDb, limiterHits, answered, tEvent, tColumns, sampleRows, settings, schemaCache, mappingCache, clock,
                   ret, locks>>

\* with _MAPPING_LOCK: (second block)
GetMappingStateLockWrite(t) ==
    /\ calls[t].pc = "m_lock_write"
    /\ IsNone(locks.mapping)
    /\ locks' = [locks EXCEPT !.mapping = Some(t)]
    /\ calls' = [calls EXCEPT ![t].pc = "m_write"]
    /\ UNCHANGED <<appDb, limiterHits, answered, tEvent, tColumns, sampleRows, settings, schemaCache, mappingCache, clock,
                   ret>>

\* _MAPPING_CACHE = {...}; the block is left and the state returned
GetMappingStateWrite(t) ==
    /\ calls[t].pc = "m_write"
    /\ locks.mapping = Some(t)
    /\ mappingCache' = Some([ts |-> calls[t].now,
                             mappingVariant |-> Val(calls[t].state).mappingVariant,
                             swapApplied |-> Val(calls[t].state).swapApplied,
                             detectorVariant |-> calls[t].detector.variant,
                             autoDetected |-> Val(calls[t].state).autoDetected])
    /\ locks' = ExitMappingLock(locks)
    /\ calls' = [calls EXCEPT ![t].pc = "m_returned"]
    /\ UNCHANGED <<appDb, limiterHits, answered, tEvent, tColumns, sampleRows, settings, schemaCache, clock, ret>>

\* the request is over; the thread takes the next one
RequestDone(t) ==
    /\ calls[t].pc = "m_returned"
    /\ calls' = [calls EXCEPT ![t] = NoCall]
    /\ UNCHANGED <<appDb, limiterHits, answered, tEvent, tColumns, sampleRows, settings, schemaCache, mappingCache, clock,
                   ret, locks>>

InitLock ==
    /\ tEvent = <<>>
    /\ tColumns = SupportedColumns
    /\ sampleRows = SwappedSample
    /\ settings = [shift_out_cutoff_hours |-> 0, inout_swap |-> FALSE]
    /\ schemaCache = None
    /\ mappingCache = None
    /\ clock = 0
    /\ ret = Idle
    /\ calls = NoCalls
    /\ locks = NoLocks
    /\ appDb = NoAppDb
    /\ limiterHits = NoHits
    /\ answered = <<>>

NextLock ==
    \/ \E t \in Threads : GetSchemaCall(t)
    \/ \E t \in Threads : GetSchemaLockCheck(t)
    \/ \E t \in Threads : GetSchemaCheck(t)
    \/ \E t \in Threads : GetSchemaQuery(t)
    \/ \E t \in Threads : GetSchemaQueryFails(t)
    \/ \E t \in Threads : GetSchemaLockInstall(t)
    \/ \E t \in Threads : GetSchemaInstall(t)
    \/ \E t \in Threads : GetMappingStateCall(t)
    \/ \E t \in Threads : GetMappingStateLockRead(t)
    \/ \E t \in Threads : GetMappingStateRead(t)
    \/ \E t \in Threads : GetMappingStateSchemaLock(t)
    \/ \E t \in Threads : GetMappingStateSchemaRead(t)
    \/ \E t \in Threads : GetMappingStateQuery(t)
    \/ \E t \in Threads : GetMappingStateQueryFails(t)
    \/ \E t \in Threads : GetMappingStateLockWrite(t)
    \/ \E t \in Threads : GetMappingStateWrite(t)
    \/ \E t \in Threads : RequestDone(t)

\* a thread inside a locked block runs on: the blocks hold no blocking call.
\* Queries and lock acquisitions carry no fairness.
FairLock ==
    \A t \in Threads :
        /\ WF_vars(GetSchemaCheck(t))
        /\ WF_vars(GetSchemaInstall(t))
        /\ WF_vars(GetMappingStateRead(t))
        /\ WF_vars(GetMappingStateSchemaRead(t))
        /\ WF_vars(GetMappingStateWrite(t))

SpecLock == InitLock /\ [][NextLock]_vars /\ FairLock

----------------------------------------------------------------------------
(* Password resets in the application database (app_db.py).  Each call of   *)
(* an app_db function opens its own sqlite3 connection; a SELECT runs       *)
(* outside any transaction, the first UPDATE of a connection opens one and  *)
(* the exit of get_app_db commits it, so the two UPDATEs of a redemption    *)
(* take effect together, after whatever other connections committed since   *)
(* the SELECT.  Times are in minutes.                                       *)

\* number of reset tokens issued
MaxResets == 2
\* minutes the clock runs
MaxMinutes == 2
\* settings.password_reset_expiry_minutes
PasswordResetExpiryMinutes == 1

\* generate_token: the n-th token issued
GenerateToken(n) == IF n = 1 THEN "tok1" ELSE IF n = 2 THEN "tok2" ELSE "tok3"
\* tokens a caller presents: the issued ones, one with blanks around it, one
\* never issued
PresentedTokens == {"tok1", " tok1 ", "tok2", "bogus"}
\* token.strip()
Strip(token) == IF token = " tok1 " THEN "tok1" ELSE token
\* hash_token, hash_password: digests, equal only for equal inputs
HashToken(raw_token) == <<"sha256", raw_token>>
HashPassword(password) == <<"bcrypt", password>>
NewPasswords == {"pw1", "pw2"}

ResetCall(pc, token, new_password, reset_id, user_id, result) ==
    [pc |-> pc, token |-> token, new_password |-> new_password, reset_id |-> reset_id,
     user_id |-> user_id, result |-> result]
NoResetCall == ResetCall("idle", "", "", 0, 0, None)

\* create_password_reset
CreatePasswordReset(user_id) ==
    LET raw_token == GenerateToken(Len(appDb.password_resets) + 1)
    IN /\ Len(appDb.password_resets) < MaxResets
       /\ appDb' = [appDb EXCEPT !.password_resets =
                        Append(@, [user_id |-> user_id,
                                   token_hash |-> HashToken(raw_token),
                                   expires_at |-> clock + PasswordResetExpiryMinutes,
                                   used_at |-> None])]
       /\ UNCHANGED <<tEvent, tColumns, sampleRows, settings, schemaCache, mappingCache,
                      clock, ret, calls, locks, limiterHits, answered>>

\* set_user_active
SetUserActive(user_id, is_active) ==
    /\ appDb.users[user_id].is_active # is_active
    /\ appDb' = [appDb EXCEPT !.users[user_id].is_active = is_active]
    /\ UNCHANGED <<tEvent, tColumns, sampleRows, settings, schemaCache, mappingCache,
                   clock, ret, calls, locks, limiterHits, answered>>

MinutePasses ==
    /\ clock < MaxMinutes
    /\ clock' = clock + 1
    /\ UNCHANGED <<tEvent, tColumns, sampleRows, settings, schemaCache, mappingCache,
                   ret, calls, locks, appDb, limiterHits, answered>>

\* the rows the SELECT of redeem_password_reset matches
RedeemableResets(db, token_digest, now) ==
    {id \in 1..Len(db.password_resets) :
        /\ db.password_resets[id].token_hash = token_digest
        /\ IsNone(db.password_resets[id].used_at)
        /\ db.password_resets[id].expires_at >= now
        /\ db.users[db.password_resets[id].user_id].is_active}

\* redeem_password_reset up to the SELECT: ORDER BY pr.id DESC LIMIT 1
RedeemSelect(t, token, new_password) ==
    LET rows == RedeemableResets(appDb, HashToken(Strip(token)), clock)
        reset_id == CHOOSE id \in rows : \A other \in rows : other <= id
    IN /\ calls[t].pc = "idle"
       /\ calls' = [calls EXCEPT ![t] =
                        IF rows = {}
                        THEN ResetCall("returned", token, new_password, 0, 0, Some(FALSE))
                        ELSE ResetCall("selected", token, new_password, reset_id,
                                       appDb.password_resets[reset_id].user_id, None)]
       /\ UNCHANGED <<tEvent, tColumns, sampleRows, settings, schemaCache, mappingCache,
                      clock, ret, locks, appDb, limiterHits, answered>>

\* the two UPDATEs and the commit
RedeemUpdate(t) ==
    /\ calls[t].pc = "selected"
    /\ appDb' = [appDb EXCEPT
                    !.users[calls[t].user_id].password_hash =
                        HashPassword(calls[t].new_password),
                    !.password_resets[calls[t].reset_id].used_at = Some(clock)]
    /\ calls' = [calls EXCEPT ![t].pc = "returned", ![t].result = Some(TRUE)]
    /\ UNCHANGED <<tEvent, tColumns, sampleRows, settings, schemaCache, mappingCache,
                   clock, ret, locks, limiterHits, answered>>

\* the caller has its answer
RedeemReturn(t) ==
    /\ calls[t].pc = "returned"
    /\ calls' = [calls EXCEPT ![t] = NoResetCall]
    /\ UNCHANGED <<tEvent, tColumns, sampleRows, settings, schemaCache, mappingCache,
                   clock, ret, locks, appDb, limiterHits, answered>>

InitReset ==
    /\ tEvent = <<>>
    /\ tColumns = SupportedColumns
    /\ sampleRows = <<>>
    /\ settings = [shift_out_cutoff_hours |-> 0, inout_swap |-> FALSE]
    /\ schemaCache = None
    /\ mappingCache = None
    /\ clock = 0
    /\ ret = Idle
    /\ calls = [t \in Threads |-> NoResetCall]
    /\ locks = NoLocks
    /\ appDb = [users |-> <<[role |-> "hr", is_active |-> TRUE,
                             password_hash |-> HashPassword("pw0")]>>,
                password_resets |-> <<>>]
    /\ limiterHits = NoHits
    /\ answered = <<>>

NextReset ==
    \/ CreatePasswordReset(1)
    \/ \E is_active \in BOOLEAN : SetUserActive(1, is_active)
    \/ MinutePasses
    \/ \E t \in Threads, token \in PresentedTokens, new_password \in NewPasswords :
           RedeemSelect(t, token, new_password)
    \/ \E t \in Threads : RedeemUpdate(t)
    \/ \E t \in Threads : RedeemReturn(t)

SpecReset == InitReset /\ [][NextReset]_vars

----------------------------------------------------------------------------
(* The rate limiter (rate_limit.py).  time.time() is a float: the clock of  *)
(* this specification counts half seconds.  A call reads the clock before   *)
(* it takes the lock, so the two steps of a call can be apart.              *)

TicksPerSecond == 2
\* window_seconds and max_requests of the limiter
WindowSeconds == 1
MaxRequests == 2
\* seconds the clock runs, and calls of allow made
MaxSeconds == 2
MaxAllowCalls == 4
\* client addresses used as keys
Keys == {"10.0.0.1", "10.0.0.2"}

\* int(x) of a number of half seconds: truncation toward zero
IntOfTicks(x) == IF x >= 0 THEN x \div TicksPerSecond ELSE -((-x) \div TicksPerSecond)

\* self._hits[key] of a defaultdict(deque)
HitsOf(h, key) == IF key \in DOMAIN h THEN h[key] ELSE <<>>

\* while entries and entries[0] < cutoff: entries.popleft()
RECURSIVE PopExpired(_, _)
PopExpired(entries, cutoff) ==
    IF entries # <<>> /\ Head(entries) < cutoff THEN PopExpired(Tail(entries), cutoff)
    ELSE entries

\* the locked part of SlidingWindowLimiter.allow: the hits of the key after
\* the call and the answer
Allow(h, key, now) ==
    LET cutoff == now - WindowSeconds * TicksPerSecond
        entries == PopExpired(HitsOf(h, key), cutoff)
        denied == Len(entries) >= MaxRequests
        retry_after == IntOfTicks(WindowSeconds * TicksPerSecond - (now - entries[1])) + 1
    IN [hits |-> [k \in DOMAIN h \cup {key} |->
                     IF k # key THEN h[k]
                     ELSE IF denied THEN entries ELSE Append(entries, now)],
        allowed |-> ~denied,
        retry_after |-> IF denied THEN (IF retry_after > 1 THEN retry_after ELSE 1) ELSE 0]

AllowCall(pc, key, now) == [pc |-> pc, key |-> key, now |-> now]
NoAllowCall == AllowCall("idle", "", 0)
AllowCallsBegun == Len(answered) + Cardinality({t \in Threads : calls[t].pc = "timed"})

\* now = time.time()
AllowReadClock(t, key) ==
    /\ calls[t].pc = "idle"
    /\ AllowCallsBegun < MaxAllowCalls
    /\ calls' = [calls EXCEPT ![t] = AllowCall("timed", key, clock)]
    /\ UNCHANGED <<tEvent, tColumns, sampleRows, settings, schemaCache, mappingCache,
                   clock, ret, locks, appDb, limiterHits, answered>>

\* with self._lock: ... return
AllowLocked(t) ==
    /\ calls[t].pc = "timed"
    /\ \E done \in {Allow(limiterHits, calls[t].key, calls[t].now)} :
           /\ limiterHits' = done.hits
           /\ answered' = Append(answered, [key |-> calls[t].key, now |-> calls[t].now,
                                            allowed |-> done.allowed,
                                            retry_after |-> done.retry_after])
    /\ calls' = [calls EXCEPT ![t] = NoAllowCall]
    /\ UNCHANGED <<tEvent, tColumns, sampleRows, settings, schemaCache, mappingCache,
                   clock, ret, locks, appDb>>

HalfSecondPasses ==
    /\ clock < MaxSeconds * TicksPerSecond
    /\ clock' = clock + 1
    /\ UNCHANGED <<tEvent, tColumns, sampleRows, settings, schemaCache, mappingCache,
                   ret, calls, locks, appDb, limiterHits, answered>>

InitLimit ==
    /\ tEvent = <<>>
    /\ tColumns = SupportedColumns
    /\ sampleRows = <<>>
    /\ settings = [shift_out_cutoff_hours |-> 0, inout_swap |-> FALSE]
    /\ schemaCache = None
    /\ mappingCache = None
    /\ clock = 0
    /\ ret = Idle
    /\ calls = [t \in Threads |-> NoAllowCall]
    /\ locks = NoLocks
    /\ appDb = NoAppDb
    /\ limiterHits = NoHits
    /\ answered = <<>>

NextLimit ==
    \/ \E t \in Threads, key \in Keys : AllowReadClock(t, key)
    \/ \E t \in Threads : AllowLocked(t)
    \/ HalfSecondPasses

SpecLimit == InitLimit /\ [][NextLimit]_vars

----------------------------------------------------------------------------
(* Properties of the day records.  The reading of the table below is written *)
(* from the rows, not through the functions above.                           *)

\* the polarity-resolved meaning of a stored row
ResolvedIn(row, swap) ==
    \/ row.inout_flag = Some(1) /\ ~swap
    \/ row.inout_flag = Some(0) /\ swap
ResolvedOut(row, swap) ==
    \/ row.inout_flag = Some(0) /\ ~swap
    \/ row.inout_flag = Some(1) /\ swap

RowsIdx == 1..Len(tEvent)
InsOfDay(d, swap) ==
    {tEvent[i].event_time : i \in {j \in RowsIdx :
        /\ ResolvedIn(tEvent[j], swap)
        /\ DateOf(tEvent[j].event_time) = d}}
OutRows(swap) == {i \in RowsIdx : ResolvedOut(tEvent[i], swap)}
ResolvedRowsOfDay(d, swap) ==
    {i \in RowsIdx : /\ ResolvedIn(tEvent[i], swap) \/ ResolvedOut(tEvent[i], swap)
                     /\ DateOf(tEvent[i].event_time) = d}
Earliest(S) == CHOOSE t \in S : \A u \in S : t <= u
CutoffSeconds == settings.shift_out_cutoff_hours * SecondsPerHour

IsDayCall == ret.op = "build_single_day_record"
IsPeriodCall == ret.op = "build_daily_records_for_period"
\* the day records the last call returned
RetDayRecords ==
    IF IsDayCall THEN {ret.value}
    ELSE IF IsPeriodCall THEN {ret.value[i] : i \in 1..Len(ret.value)}
    ELSE {}
\* the days the last call computed a record for
RetDays ==
    IF IsDayCall THEN {ret.selected_date}
    ELSE IF IsPeriodCall THEN ret.start..(ret.end - 1)
    ELSE {}
RecordsOfDay(d) == {r \in RetDayRecords : r.date = d}

\* day d has an IN, and the only OUT of the stream falls in the overnight
\* window [dayEnd(d), dayEnd(d) + cutoff)
OvernightCase(d, swap) ==
    /\ InsOfDay(d, swap) # {}
    /\ Cardinality(OutRows(swap)) = 1
    /\ \A i \in OutRows(swap) :
          /\ (d + 1) * SecondsPerDay <= tEvent[i].event_time
          /\ tEvent[i].event_time < (d + 1) * SecondsPerDay + CutoffSeconds
TheOut(swap) == tEvent[CHOOSE i \in OutRows(swap) : TRUE].event_time

\* C2: overnight attribution.  When day D has an IN (t_in the earliest) and the
\* only OUT of the stream is at t_out in [dayEnd(D), dayEnd(D) + cutoff), the
\* record of D has firstIn = t_in, lastOut = t_out, durationMinutes =
\* floor((t_out - t_in) / 60 s) and missingPunch = false.
C2_OvernightAttribution ==
    \A d \in RetDays :
        OvernightCase(d, ret.swap_applied) =>
            /\ RecordsOfDay(d) # {}
            /\ \A r \in RecordsOfDay(d) :
                  LET t_in == Earliest(InsOfDay(d, ret.swap_applied))
                      t_out == TheOut(ret.swap_applied)
                  IN /\ r.first_in = Some(t_in)
                     /\ r.last_out = Some(t_out)
                     /\ ~IsNone(r.duration_minutes)
                     /\ Val(r.duration_minutes) * SecondsPerMinute <= t_out - t_in
                     /\ t_out - t_in < (Val(r.duration_minutes) + 1) * SecondsPerMinute
                     /\ r.missing_punch = FALSE

\* an overnight pair listed by the period builder, 299.5 minutes long
C2_Witness ==
    /\ IsPeriodCall
    /\ \E d \in RetDays :
          /\ OvernightCase(d, ret.swap_applied)
          /\ \E r \in RecordsOfDay(d) : r.duration_minutes = Some(299)

\* C3: an overnight IN/OUT pair produces no record of its own for the following
\* day.  When the record of day D takes as lastOut an OUT after midnight and that
\* OUT is the only IN/OUT event of day D+1, the period listing has no record
\* dated D+1.
C3_NoRecordForFollowingDay ==
    IsPeriodCall =>
        \A d \in RetDays :
            (/\ d + 1 \in RetDays
             /\ \E r \in RecordsOfDay(d) :
                   /\ ~IsNone(r.first_in)
                   /\ ~IsNone(r.last_out)
                   /\ DateOf(Val(r.last_out)) = d + 1
                   /\ \A i \in ResolvedRowsOfDay(d + 1, ret.swap_applied) :
                         /\ ResolvedOut(tEvent[i], ret.swap_applied)
                         /\ tEvent[i].event_time = Val(r.last_out))
            => RecordsOfDay(d + 1) = {}

\* C4: missingPunch is true exactly when exactly one of firstIn / lastOut is
\* null, in every day record returned.
C4_MissingPunchIsXor ==
    \A r \in RetDayRecords :
        r.missing_punch <=>
            \/ IsNone(r.first_in) /\ ~IsNone(r.last_out)
            \/ ~IsNone(r.first_in) /\ IsNone(r.last_out)

\* records of each of the four kinds have been returned: this one has an IN
\* and no OUT
C4_Witness ==
    /\ IsDayCall
    /\ ~IsNone(ret.value.first_in)
    /\ IsNone(ret.value.last_out)
    /\ ret.value.missing_punch

\* C5: durationMinutes is never negative, and when firstIn and lastOut are both
\* present it is the floor of (lastOut - firstIn) in minutes.
C5_DurationIsFloor ==
    \A r \in RetDayRecords :
        /\ IsNone(r.duration_minutes) \/ Val(r.duration_minutes) >= 0
        /\ (~IsNone(r.first_in) /\ ~IsNone(r.last_out)) =>
              /\ ~IsNone(r.duration_minutes)
              /\ Val(r.duration_minutes) * SecondsPerMinute
                     <= Val(r.last_out) - Val(r.first_in)
              /\ Val(r.last_out) - Val(r.first_in)
                     < (Val(r.duration_minutes) + 1) * SecondsPerMinute

\* a pair whose distance is not a whole number of minutes
C5_Witness ==
    \E r \in RetDayRecords :
        /\ ~IsNone(r.first_in) /\ ~IsNone(r.last_out)
        /\ (Val(r.last_out) - Val(r.first_in)) % SecondsPerMinute # 0
        /\ ~IsNone(r.duration_minutes)

\* C6: in a period listing a date appears at most once, and only if a
\* polarity-resolved IN or OUT event lies inside that calendar day.
C6_ListedDaysHaveEvents ==
    IsPeriodCall =>
        /\ \A i, j \in 1..Len(ret.value) : i < j => ret.value[i].date < ret.value[j].date
        /\ \A r \in RetDayRecords :
              /\ r.date \in RetDays
              /\ ResolvedRowsOfDay(r.date, ret.swap_applied) # {}

\* a listing over two days that omits a day holding only an UNKNOWN event and
\* lists the other
C6_Witness ==
    /\ IsPeriodCall
    /\ Len(ret.value) = 1
    /\ \E d \in RetDays :
          /\ RecordsOfDay(d) = {}
          /\ \E i \in RowsIdx : DateOf(tEvent[i].event_time) = d /\ tEvent[i].inout_flag = None

----------------------------------------------------------------------------
(* Properties of the period totals *)

IsTotalsCall == ret.op = "compute_period_segment_totals"

\* minutes a result attributes to day d; a day without a bucket has none
InMinutesOf(totals, d) ==
    IF d \in DOMAIN totals.per_day THEN totals.per_day[d].in_minutes ELSE 0
OutMinutesOf(totals, d) ==
    IF d \in DOMAIN totals.per_day THEN totals.per_day[d].out_minutes ELSE 0

\* what _compute_period_segment_totals returns for [start, end) on the table as
\* it stands, under the detector of the cached schema
TotalsFor(start, end, swap_applied) ==
    ComputePeriodSegmentTotals(tEvent, Val(schemaCache), start, end, swap_applied,
                               DetectEventVariant(Val(schemaCache)))

\* C1: segment accumulation is additive across date splits.  For every window
\* [start, end) and every split start < mid < end, the totals and the per-day
\* minutes returned for [start, end) are the sums of those returned for
\* [start, mid) and [mid, end), under the same swap_applied and detector.
C1_AdditiveAcrossSplits ==
    IsTotalsCall =>
        \A mid \in WindowBounds :
            (ret.start < mid /\ mid < ret.end) =>
                LET left == TotalsFor(ret.start, mid, ret.swap_applied)
                    right == TotalsFor(mid, ret.end, ret.swap_applied)
                IN /\ ret.value.totalInMinutes
                          = left.totalInMinutes + right.totalInMinutes
                   /\ ret.value.totalOutMinutes
                          = left.totalOutMinutes + right.totalOutMinutes
                   /\ \A d \in 0..MaxDay :
                          /\ InMinutesOf(ret.value, d)
                                 = InMinutesOf(left, d) + InMinutesOf(right, d)
                          /\ OutMinutesOf(ret.value, d)
                                 = OutMinutesOf(left, d) + OutMinutesOf(right, d)

----------------------------------------------------------------------------
(* Properties of the polarity heuristic, counted from the sample itself *)

RECURSIVE RowsAt(_)
RowsAt(I) ==
    IF I = {} THEN 0
    ELSE LET i == CHOOSE x \in I : TRUE IN sampleRows[i].count + RowsAt(I \ {i})

SampleIdx == 1..Len(sampleRows)
InIdx == {i \in SampleIdx : sampleRows[i].inout_flag = Some(1)}
OutIdx == {i \in SampleIdx : sampleRows[i].inout_flag = Some(0)}
NValid == RowsAt(InIdx \cup OutIdx)
NIn == RowsAt(InIdx)
NOut == RowsAt(OutIdx)
NInEarly == RowsAt({i \in InIdx : HourOf(sampleRows[i].event_time) \in 0..6})
NOutLate == RowsAt({i \in OutIdx : HourOf(sampleRows[i].event_time) \in 12..23})

\* strictly more than 60% of the IN rows are early and strictly more than 60%
\* of the OUT rows are late
ExpectedSwap ==
    /\ NValid >= 50
    /\ NIn > 0 /\ NOut > 0
    /\ 5 * NInEarly > 3 * NIn
    /\ 5 * NOutLate > 3 * NOut

IsMappingCall == ret.op = "get_mapping_state"
Sampled == IsMappingCall /\ ret.path = "sampled"

\* C7: _should_auto_swap is false below 50 resolvable rows; otherwise it is true
\* exactly when strictly more than 60% of the IN rows have hour 0..6 and strictly
\* more than 60% of the OUT rows have hour 12..23; and the state built from the
\* sample has autoDetected = false whenever the heuristic is disabled.
C7_SwapHeuristic ==
    /\ ShouldAutoSwap(sampleRows) = ExpectedSwap
    /\ NValid < 50 => ~ShouldAutoSwap(sampleRows)
    /\ Sampled =>
          /\ ret.value.swapApplied = ExpectedSwap
          /\ ret.value.autoDetected = ExpectedSwap
          /\ NValid < 50 => ret.value.autoDetected = FALSE

\* a sample of 80 resolvable rows with exactly 60% of the IN rows early and all
\* OUT rows late: not swapped
C7_Witness ==
    /\ Sampled
    /\ NValid >= 50
    /\ NIn > 0 /\ 5 * NInEarly = 3 * NIn
    /\ NOut > 0 /\ NOutLate = NOut
    /\ ret.value.swapApplied = FALSE

\* the sample with every IN/OUT flag reversed
ReversedFlag(flag) ==
    IF flag = Some(1) THEN Some(0) ELSE IF flag = Some(0) THEN Some(1) ELSE flag
ReversedSample ==
    [i \in SampleIdx |-> [sampleRows[i] EXCEPT !.inout_flag = ReversedFlag(@)]]

\* C8: a sample with at least 50 resolvable flags that the heuristic finds
\* swapped is found not swapped once every IN/OUT flag is reversed.
C8_ReversedSampleNotSwapped ==
    (NValid >= 50 /\ ShouldAutoSwap(sampleRows)) => ~ShouldAutoSwap(ReversedSample)

\* the heuristic has returned swapped = true for the sample
C8_Witness ==
    /\ Sampled
    /\ NValid >= 50
    /\ ret.value.swapApplied = TRUE
    /\ ShouldAutoSwap(ReversedSample) = FALSE

----------------------------------------------------------------------------
(* Properties of the mapping state *)

CurrentVariant == DetectEventVariant(ResolveSchema(tColumns)).variant

\* C9 as stated: under manual override every call returns swapped with
\* swapApplied = true, autoDetected = false and manualOverride = true, without
\* sampling and without touching the mapping cache.
C9_ManualOverrideAlways ==
    (settings.inout_swap /\ IsMappingCall) =>
        /\ ret.value.mappingVariant = "swapped"
        /\ ret.value.swapApplied = TRUE
        /\ ret.value.autoDetected = FALSE
        /\ ret.value.manualOverride = TRUE
        /\ ret.path = "manual"
        /\ mappingCache = None

\* C9, amended: under manual override and a detected (not UNSUPPORTED) event
\* variant every call returns swapped with swapApplied = true, autoDetected =
\* false and manualOverride = true, whatever the sample holds, without sampling
\* and with the mapping cache left as it was (empty); under an UNSUPPORTED
\* variant the call returns the unsupported state, also without sampling or
\* touching the cache.
C9_ManualOverrideWhenSupported ==
    (settings.inout_swap /\ IsMappingCall) =>
        /\ mappingCache = None
        /\ ret.value.autoDetected = FALSE
        /\ CurrentVariant # "UNSUPPORTED" =>
              /\ ret.value.mappingVariant = "swapped"
              /\ ret.value.swapApplied = TRUE
              /\ ret.value.manualOverride = TRUE
              /\ ret.path = "manual"
        /\ CurrentVariant = "UNSUPPORTED" =>
              /\ ret.value.mappingVariant = "unsupported"
              /\ ret.value.swapApplied = FALSE
              /\ ret.value.manualOverride = FALSE
              /\ ret.path = "unsupported"

\* the override answers although the sample on its own is not swapped
C9_Witness ==
    /\ settings.inout_swap
    /\ IsMappingCall
    /\ ret.path = "manual"
    /\ sampleRows = NormalSample
    /\ clock > 0

----------------------------------------------------------------------------
(* Properties of the reports *)

IsReport(op) == ret.op = op /\ ret.status = 200
IsAnyReport ==
    \/ IsReport("fetch_daily_report")
    \/ IsReport("fetch_monthly_report")
    \/ IsReport("fetch_yearly_report")

\* C10: when the event variant is UNSUPPORTED, a daily, monthly or yearly report
\* of well-formed input is returned with totalInMinutes = totalOutMinutes = 0,
\* mappingVariant = unsupported and swapApplied = false; the daily report has
\* null first_in, last_out and duration and missing_punch false, the monthly
\* report an empty record list, the yearly report an empty month list.
C10_UnsupportedGivesEmptyReports ==
    (CurrentVariant = "UNSUPPORTED" /\ IsAnyReport) =>
        /\ ret.value.totalInMinutes = 0
        /\ ret.value.totalOutMinutes = 0
        /\ ret.value.mappingVariant = "unsupported"
        /\ ret.value.swapApplied = FALSE
        /\ IsReport("fetch_daily_report") =>
              /\ IsNone(ret.value.first_in)
              /\ IsNone(ret.value.last_out)
              /\ IsNone(ret.value.duration_minutes)
              /\ ret.value.missing_punch = FALSE
        /\ IsReport("fetch_monthly_report") =>
              /\ ret.value.records = <<>>
              /\ ret.value.total_minutes = 0
        /\ IsReport("fetch_yearly_report") =>
              /\ ret.value.months = <<>>
              /\ ret.value.total_minutes = 0

\* a yearly report under an UNSUPPORTED variant, with an overnight shift on file
\* and the manual override configured
C10_Witness ==
    /\ CurrentVariant = "UNSUPPORTED"
    /\ IsReport("fetch_yearly_report")
    /\ Len(tEvent) >= 2
    /\ tEvent[1].inout_flag = Some(1)
    /\ tEvent[2].inout_flag = Some(0)
    /\ tEvent[1].event_time < tEvent[2].event_time
    /\ settings.inout_swap

----------------------------------------------------------------------------
(* Properties of the totals record *)

MinutesPerDay == MinutesPerHour * HoursPerDay

RECURSIVE SumDays(_, _, _)
\* minutes of one state summed over the days 0..d of a result
SumDays(totals, d, field) ==
    IF d < 0 THEN 0
    ELSE (IF field = "in" THEN InMinutesOf(totals, d) ELSE OutMinutesOf(totals, d))
         + SumDays(totals, d - 1, field)

\* states that have minutes on day d
StatesActive(totals, d) ==
    (IF InMinutesOf(totals, d) > 0 THEN 1 ELSE 0)
    + (IF OutMinutesOf(totals, d) > 0 THEN 1 ELSE 0)

\* C11: in every result of _compute_period_segment_totals the totals are the sums
\* of the per-day minutes, no minute count is negative, and the minutes of a day
\* are at most 1440 times the number of states active on it (and at most 1440
\* for each state).
C11_TotalsAreSumsAndBounded ==
    IsTotalsCall =>
        /\ DOMAIN ret.value.per_day \subseteq 0..MaxDay
        /\ ret.value.totalInMinutes = SumDays(ret.value, MaxDay, "in")
        /\ ret.value.totalOutMinutes = SumDays(ret.value, MaxDay, "out")
        /\ ret.value.totalInMinutes >= 0
        /\ ret.value.totalOutMinutes >= 0
        /\ \A d \in DOMAIN ret.value.per_day :
              /\ InMinutesOf(ret.value, d) >= 0
              /\ OutMinutesOf(ret.value, d) >= 0
              /\ InMinutesOf(ret.value, d) <= MinutesPerDay
              /\ OutMinutesOf(ret.value, d) <= MinutesPerDay
              /\ InMinutesOf(ret.value, d) + OutMinutesOf(ret.value, d)
                     <= MinutesPerDay * StatesActive(ret.value, d)

\* a result with minutes on two days, of both states, from a segment that
\* crosses midnight
C11_Witness ==
    /\ IsTotalsCall
    /\ Cardinality(DOMAIN ret.value.per_day) >= 2
    /\ ret.value.totalInMinutes > 0
    /\ ret.value.totalOutMinutes > 0
    /\ \E d \in DOMAIN ret.value.per_day :
           InMinutesOf(ret.value, d) > 0 /\ OutMinutesOf(ret.value, d) > 0

----------------------------------------------------------------------------
(* Properties of the schema cache under concurrent callers *)

SchemaReturned(t) == calls[t].pc = "returned"

\* C12: the schema cache is first-cached-wins.  Once _SCHEMA_CACHE holds a
\* descriptor no step changes it, and every caller of _get_schema that has
\* returned holds that one descriptor, whatever it resolved itself.
C12_FirstCachedWins ==
    /\ [](\A t \in Threads :
            SchemaReturned(t) => /\ ~IsNone(schemaCache)
                                 /\ calls[t].result = schemaCache)
    /\ [][~IsNone(schemaCache) => schemaCache' = schemaCache]_vars

\* two first callers have both returned, and one of them had resolved a
\* descriptor other than the cached one
C12_Witness ==
    /\ \A t \in Threads : SchemaReturned(t)
    /\ \E t \in Threads :
          /\ ~IsNone(calls[t].resolved)
          /\ calls[t].resolved # schemaCache

----------------------------------------------------------------------------
(* Properties of the mapping cache *)

\* the step is a call of _get_mapping_state
MappingCallStep == ret = Idle /\ ret' # Idle /\ ret'.op = "get_mapping_state"

\* the entry of the cache can be used at time now for the variant
EntryUsable(now, variant) ==
    /\ mappingCache # None
    /\ now - mappingCache[1].ts < 300
    /\ mappingCache[1].detectorVariant = variant

\* C13: with no manual override and a supported detector, a call answers from the
\* cache, without sampling and leaving the cache alone, exactly when an entry
\* exists, is younger than 300 seconds and carries the caller's detector variant;
\* otherwise it samples, computes the state from the rows of that moment and
\* stores it with the time of the call.  No other step changes the cache, so an
\* answer from the cache rests on a sample younger than 300 seconds.
C13_CacheWithinTtl ==
    /\ [][MappingCallStep =>
            LET variant == ret'.detector.variant
            IN /\ ret'.path \in {"cache", "sampled"}
               /\ (ret'.path = "cache") = EntryUsable(clock, variant)
               /\ ret'.path = "cache" =>
                     /\ mappingCache' = mappingCache
                     /\ ret'.value.swapApplied = mappingCache[1].swapApplied
                     /\ ret'.value.mappingVariant = mappingCache[1].mappingVariant
               /\ ret'.path = "sampled" =>
                     /\ mappingCache' # None
                     /\ mappingCache'[1].ts = clock
                     /\ mappingCache'[1].detectorVariant = variant
                     /\ mappingCache'[1].swapApplied = ret'.value.swapApplied
                     /\ ret'.value.swapApplied = (sampleRows = SwappedSample)]_vars
    /\ [][~MappingCallStep => mappingCache' = mappingCache]_vars
    /\ [](mappingCache # None => mappingCache[1].ts <= clock)

\* a call exactly 300 seconds after the entry was stored samples again, with
\* rows that now give the other answer
C13_Witness ==
    /\ IsMappingCall
    /\ ret.path = "sampled"
    /\ clock = 300
    /\ ret.value.swapApplied
    /\ schemaCache # None

\* C14: every state _get_mapping_state returns, by whichever return statement and
\* after any sequence of calls, has autoDetected = false when manualOverride is
\* true.
C14_OverrideIsNotAutoDetected ==
    IsMappingCall =>
        /\ ret.path \in {"unsupported", "manual", "cache", "sampled"}
        /\ ret.value.manualOverride => ~ret.value.autoDetected

\* a state returned with manualOverride = true while the rows on file would be
\* detected as swapped
C14_Witness ==
    /\ IsMappingCall
    /\ ret.value.manualOverride
    /\ sampleRows = SwappedSample
    /\ clock > 0

----------------------------------------------------------------------------
(* Properties of the event-variant detection *)

IsDetectCall == ret.op = "detect_event_variant"

\* the table has a column of that name, in whatever case
HasColumn(columns, name) == \E c \in columns : Lower(c) = Lower(name)

\* C15: detection follows the fixed priority order for every combination of
\* columns: (a) event EventType with type-table EventID, else (b) event EventID
\* with type-table EventID, else (c) event InOut, else (d) event Event, else
\* UNSUPPORTED; names match in any case.
C15_DetectionPriority ==
    IsDetectCall =>
        LET e == tColumns.event
            t == tColumns.event_type
        IN ret.value.variant =
              IF HasColumn(e, "EventType") /\ HasColumn(t, "EventID")
              THEN "EVENTTYPE_to_EventID"
              ELSE IF HasColumn(e, "EventID") /\ HasColumn(t, "EventID")
              THEN "EVENTID_to_EventID"
              ELSE IF HasColumn(e, "InOut") THEN "TEVENT_InOut_only"
              ELSE IF HasColumn(e, "Event") THEN "TEVENT_Event_text_only"
              ELSE "UNSUPPORTED"

\* every strategy applies at once, under other spellings: (a) is taken
C15_Witness ==
    /\ IsDetectCall
    /\ {"EVENTTYPE", "eventid", "INOUT", "event"} \subseteq tColumns.event
    /\ "eventid" \in tColumns.event_type
    /\ ret.value.variant = "EVENTTYPE_to_EventID"

----------------------------------------------------------------------------
(* Properties of the normalization rule *)

IsInOutFlagCall == ret.op = "inout_flag"

\* the raw value the strategy's rule reads
RawValueRead == tEvent[1][ret.detector.raw_expr]

MeansEntry(raw) ==
    SqlEquals(raw, 1) \/ SqlTokenIn(raw, InTokens) \/ SqlLike(raw, EntryPrefix)

MeansExit(raw) ==
    \/ \E n \in {0, 2, 0 - 1} : SqlEquals(raw, n)
    \/ SqlTokenIn(raw, OutTokens)
    \/ SqlLike(raw, ExitPrefix)

\* C16: for each detected strategy the rule yields IN for numeric 1, the
\* tokens IN/I/ENTRY/ENTER or a label with prefix Entry, OUT for numeric 0, 2
\* or -1, the tokens OUT/O/EXIT/LEAVE or a label with prefix Exit, and UNKNOWN
\* for every other value including null.
C16_SameRuleForEveryStrategy ==
    (/\ IsInOutFlagCall
     /\ ret.detector.variant # "UNSUPPORTED"
     /\ ret.detector.raw_expr # "none"
     /\ \A c \in RawColumns \ {ret.detector.raw_expr} : tEvent[1][c] = None)
    => ret.value = IF MeansEntry(RawValueRead) THEN Some(1)
                   ELSE IF MeansExit(RawValueRead) THEN Some(0)
                   ELSE None

----------------------------------------------------------------------------
(* Properties of the monthly aggregation *)

IsMonthlyReport == IsReport("fetch_monthly_report")

RECURSIVE SumOfDurations(_, _)
SumOfDurations(records, indices) ==
    IF indices = {} THEN 0
    ELSE LET i == CHOOSE i \in indices : TRUE
         IN (IF records[i].duration_minutes = None THEN 0
             ELSE Val(records[i].duration_minutes))
            + SumOfDurations(records, indices \ {i})

\* C17: in a monthly report total_minutes is the sum of the non-null
\* durationMinutes of the listed records, missing_punch_days the number of
\* records with missingPunch true, and total_days the number of records that
\* have a firstIn.
C17_MonthlyAggregation ==
    IsMonthlyReport =>
        LET records == ret.value.records
            listed == DOMAIN records
        IN /\ ret.value.total_minutes = SumOfDurations(records, listed)
           /\ ret.value.missing_punch_days
                  = Cardinality({i \in listed : records[i].missing_punch})
           /\ ret.value.total_days
                  = Cardinality({i \in listed : records[i].first_in # None})

\* durations 480, null with missing punch and no firstIn, 510
C17_Witness ==
    /\ IsMonthlyReport
    /\ Len(ret.value.records) = 3
    /\ ret.value.records[1].duration_minutes = Some(480)
    /\ ret.value.records[2].duration_minutes = None
    /\ ret.value.records[2].missing_punch
    /\ ret.value.records[2].first_in = None
    /\ ret.value.records[3].duration_minutes = Some(510)
    /\ ret.value.total_minutes = 990
    /\ ret.value.missing_punch_days = 1
    /\ ret.value.total_days = 2

----------------------------------------------------------------------------
(* Properties of the input checks of the reports *)

\* the inputs that do not parse, and the years outside 1900..2100
MalformedInputs ==
    [fetch_daily_report |-> {"2024-01-32"},
     fetch_monthly_report |-> {"2024-13"},
     fetch_yearly_report |-> {"20x4", "1899", "2101"}]

\* C18: a report called with a date, month or year that does not parse, or a
\* year outside 1900..2100, answers 400 and leaves the schema cache and the
\* mapping cache as they were, so that no statement after the parse has run.
C18_MalformedInputRejectedFirst ==
    [][(/\ ret = Idle
        /\ ret'.op \in DOMAIN MalformedInputs
        /\ ret'.arg \in MalformedInputs[ret'.op])
       => (/\ ret'.status = 400
           /\ schemaCache' = schemaCache
           /\ mappingCache' = mappingCache)]_vars

\* a year above the range is refused while the schema was never resolved
C18_Witness ==
    /\ ret = BadRequest("fetch_yearly_report", "2101")
    /\ tEvent # <<>>
    /\ schemaCache = None
    /\ mappingCache = None

----------------------------------------------------------------------------
(* Properties of upstream failures *)

HasRaised(r) == r # Idle /\ "status" \in DOMAIN r /\ r.status = "DBOperationalError"

\* C19: an upstream error while resolving the schema or while sampling reaches
\* the caller at once and leaves the schema cache and the mapping cache as
\* they were before the call, so the next call resolves or samples again:
\* after a failed resolution the schema cache is still empty, after a failed
\* sampling the mapping cache holds no entry usable for that detector.
C19_ErrorLeavesCaches ==
    /\ [](HasRaised(ret) /\ ret.op = "detect_event_variant" => schemaCache = None)
    /\ [](HasRaised(ret) /\ ret.op = "get_mapping_state"
              => ~EntryUsable(clock, ret.detector.variant))
    /\ [][HasRaised(ret') /\ ~HasRaised(ret)
              => schemaCache' = schemaCache /\ mappingCache' = mappingCache]_vars

\* sampling fails while an expired entry is cached: the entry stays
C19_Witness ==
    /\ HasRaised(ret)
    /\ ret.op = "get_mapping_state"
    /\ mappingCache # None
    /\ schemaCache # None

----------------------------------------------------------------------------
(* The day record against its reference definition *)

Latest(S) == CHOOSE t \in S : \A u \in S : u <= t

\* times of the polarity-corrected OUT events with from <= t < to
OutsBetween(from, to, swap) ==
    {tEvent[i].event_time : i \in {j \in OutRows(swap) :
        from <= tEvent[j].event_time /\ tEvent[j].event_time < to}}

ReferenceFirstIn(d, swap) ==
    IF InsOfDay(d, swap) # {} THEN Some(Earliest(InsOfDay(d, swap))) ELSE None

ReferenceLastOut(d, swap) ==
    LET day_start == d * SecondsPerDay
        day_end == (d + 1) * SecondsPerDay
        outs == IF InsOfDay(d, swap) # {}
                THEN OutsBetween(Earliest(InsOfDay(d, swap)), day_end + CutoffSeconds, swap)
                ELSE OutsBetween(day_start, day_end, swap)
    IN IF outs # {} THEN Some(Latest(outs)) ELSE None

\* C20: in every day record, firstIn is the earliest polarity-corrected IN inside
\* [dayStart, dayEnd) or null; with a firstIn, lastOut is the latest OUT with
\* firstIn <= t < dayEnd + cutoff or null; without one, lastOut is the latest
\* in-day OUT or null, and an OUT-only day is reported as missing punch.
C20_MatchesReference ==
    \A r \in RetDayRecords :
        /\ r.first_in = ReferenceFirstIn(r.date, ret.swap_applied)
        /\ r.last_out = ReferenceLastOut(r.date, ret.swap_applied)
        /\ (r.first_in = None /\ r.last_out # None) => r.missing_punch

\* two OUTs follow the IN, the later one past midnight inside the cutoff window
C20_Witness ==
    /\ IsDayCall
    /\ ret.value.first_in # None
    /\ ret.value.last_out # None
    /\ ret.value.last_out[1] >= (ret.value.date + 1) * SecondsPerDay
    /\ Cardinality(OutsBetween(ret.value.first_in[1],
                               (ret.value.date + 1) * SecondsPerDay + CutoffSeconds,
                               ret.swap_applied)) = 2

----------------------------------------------------------------------------
(* Properties of the anchor of the segment accumulator *)

\* rows strictly before the boundary whose flag is IN or OUT
ResolvableBefore(boundary) ==
    {i \in RowsIdx : tEvent[i].event_time < boundary /\ tEvent[i].inout_flag # None}

\* the accumulator run on the events of [start, end) behind the given anchor row
TotalsSeededBy(i, start, end, swap_applied) ==
    LET schema == Val(schemaCache)
        detector == DetectEventVariant(schema)
        fetched == FetchEventsForCard(tEvent, schema, start, end, detector)
    IN WalkTimeline(SortByEventTime(<<FetchedRow(tEvent[i], detector)>> \o fetched), 1,
                    None, None, <<>>, start, end, swap_applied)

\* C21: the anchor that seeds the accumulator is the most recent event before
\* start whose flag is IN or OUT; UNKNOWN events between it and start do not
\* keep it from seeding the state, so the per-day minutes are those of the
\* timeline that begins with that event.
C21_AnchorIsLastResolvable ==
    (IsTotalsCall /\ ResolvableBefore(ret.start) # {}) =>
        LET i == CHOOSE j \in ResolvableBefore(ret.start) :
                     \A k \in ResolvableBefore(ret.start) : k <= j
        IN ret.value.per_day = TotalsSeededBy(i, ret.start, ret.end, ret.swap_applied)

----------------------------------------------------------------------------
(* Properties of the trailing open segment *)

ResolvableRows == {i \in RowsIdx : tEvent[i].inout_flag # None}

\* row i changes the state: the resolvable row before it has the other flag
ChangesState(i) ==
    /\ i \in ResolvableRows
    /\ \E j \in ResolvableRows :
          /\ j < i
          /\ \A k \in ResolvableRows : k < i => k <= j
          /\ tEvent[j].inout_flag # tEvent[i].inout_flag

ChangesIn(start, end) ==
    {i \in RowsIdx : ChangesState(i) /\ start <= tEvent[i].event_time
                                     /\ tEvent[i].event_time < end}

\* time of the last state-changing event of the window, start when there is none
LastChange(start, end) ==
    IF ChangesIn(start, end) = {} THEN start
    ELSE tEvent[CHOOSE i \in ChangesIn(start, end) :
                    \A k \in ChangesIn(start, end) : k <= i].event_time

\* seconds of day d inside [from, to)
SecondsOfDayIn(d, from, to) ==
    LET lo == IF from > d * SecondsPerDay THEN from ELSE d * SecondsPerDay
        hi == IF to < (d + 1) * SecondsPerDay THEN to ELSE (d + 1) * SecondsPerDay
    IN IF hi > lo THEN hi - lo ELSE 0

\* C22: the trailing open segment is never counted.  The minutes of a day lie
\* before the last state-changing event of the window, and a table whose
\* resolvable events all carry the same flag yields zero totals and no day.
C22_TrailingSegmentNotCounted ==
    IsTotalsCall =>
        /\ \A d \in 0..MaxDay :
              (InMinutesOf(ret.value, d) + OutMinutesOf(ret.value, d)) * SecondsPerMinute
                  <= SecondsOfDayIn(d, ret.start, LastChange(ret.start, ret.end))
        /\ (\A i, j \in ResolvableRows : tEvent[i].inout_flag = tEvent[j].inout_flag)
              => /\ ret.value.totalInMinutes = 0
                 /\ ret.value.totalOutMinutes = 0
                 /\ DOMAIN ret.value.per_day = {}

\* minutes are counted up to a last change that leaves more than a day of the
\* window open behind it
C22_Witness ==
    /\ IsTotalsCall
    /\ ret.value.totalInMinutes + ret.value.totalOutMinutes > 0
    /\ ChangesIn(ret.start, ret.end) # {}
    /\ LastChange(ret.start, ret.end) + SecondsPerDay < ret.end
    /\ ChangesState(Len(tEvent))

----------------------------------------------------------------------------
(* Properties of a report computed beside other requests *)

IsConcurrentReport == ret.op \in ReportOps /\ "used" \in DOMAIN ret

\* what the two computations give on the table for a polarity
RecordsUnder(op, swap_applied) ==
    LET period == ReportPeriod(op)
        schema == Val(schemaCache)
    IN IF op = "fetch_daily_report"
       THEN <<BuildSingleDayRecord(tEvent, schema, DateOf(period.start), swap_applied,
                  DetectEventVariant(schema), settings.shift_out_cutoff_hours)>>
       ELSE BuildDailyRecordsForPeriod(tEvent, schema, period.start, period.end,
                swap_applied, DetectEventVariant(schema), settings.shift_out_cutoff_hours)

\* C23: in every report returned, the day records and the period totals were
\* computed with the same detector and the same swapApplied, and the
\* swapApplied and mappingVariant reported are the ones used, whatever the
\* mapping cache holds by then.
C23_OneDetectorOnePolarity ==
    IsConcurrentReport =>
        /\ ret.used.records_with = ret.used.totals_with
        /\ ret.used.records_with.swap_applied = ret.value.swapApplied
        /\ ret.used.records_with.detector.variant = DetectEventVariant(Val(schemaCache)).variant
        /\ ret.value.mappingVariant = (IF ret.value.swapApplied THEN "swapped" ELSE "normal")
        /\ ret.value.records = RecordsUnder(ret.op, ret.value.swapApplied)
        /\ [totalInMinutes |-> ret.value.totalInMinutes,
            totalOutMinutes |-> ret.value.totalOutMinutes]
             = [totalInMinutes |-> TotalsFor(ReportPeriod(ret.op).start,
                                             ReportPeriod(ret.op).end,
                                             ret.value.swapApplied).totalInMinutes,
                totalOutMinutes |-> TotalsFor(ReportPeriod(ret.op).start,
                                              ReportPeriod(ret.op).end,
                                              ret.value.swapApplied).totalOutMinutes]

\* the report returns under the polarity it started with after another
\* request has replaced the cached state by the opposite one
C23_Witness ==
    /\ IsConcurrentReport
    /\ mappingCache # None
    /\ mappingCache[1].swapApplied # ret.value.swapApplied

----------------------------------------------------------------------------
(* Properties of the lock scopes *)

\* the thread is executing, or waiting for, a database query
AtQuery(t) == calls[t].pc \in {"query", "m_query"}

HoldsLock(t) == locks.schema = Some(t) \/ locks.mapping = Some(t)

\* C24: no thread is at a database query while it holds the schema lock or the
\* mapping lock; a lock is held only at the cache test and the cache write; and
\* every lock taken is released.
C24_NoQueryUnderLock ==
    /\ [](\A t \in Threads :
            /\ AtQuery(t) => ~HoldsLock(t)
            /\ locks.schema = Some(t) => calls[t].pc \in {"check", "install", "m_schema_read"}
            /\ locks.mapping = Some(t) => calls[t].pc \in {"m_read", "m_write"})
    /\ \A t \in Threads : (locks.schema = Some(t)) ~> (locks.schema # Some(t))
    /\ \A t \in Threads : (locks.mapping = Some(t)) ~> (locks.mapping # Some(t))

\* one request is at its sample query while another is inside the locked
\* cache test
C24_Witness ==
    \E t, u \in Threads :
        /\ calls[t].pc = "m_query"
        /\ locks.mapping = Some(u)
        /\ calls[u].pc = "m_read"

----------------------------------------------------------------------------
(* The period builder against the single-day builder *)

\* the events the period builder fetched, and its indices after the pass of day d
PeriodEvents ==
    FetchEventsForCard(tEvent, Val(schemaCache), ret.start * SecondsPerDay,
        ret.end * SecondsPerDay + SecondsPerDay
            + settings.shift_out_cutoff_hours * SecondsPerHour,
        DetectEventVariant(Val(schemaCache)))

IndicesAfter(d) ==
    PeriodLoop(PeriodEvents, ret.start * SecondsPerDay, d - ret.start + 1,
               [start_idx |-> 0, end_idx |-> 0, records |-> <<>>],
               ret.swap_applied, settings.shift_out_cutoff_hours)

\* C25: every record the period builder lists for a date d equals, in firstIn,
\* lastOut, durationMinutes and missingPunch, the record of the single-day
\* builder for d, and the index window of d holds exactly the fetched events
\* of [dayStart(d), dayEnd(d) + cutoff).
C25_PeriodAgreesWithSingleDay ==
    IsPeriodCall =>
        /\ \A i \in 1..Len(ret.value) :
              LET r == ret.value[i]
                  single == BuildSingleDayRecord(tEvent, Val(schemaCache), r.date,
                                ret.swap_applied, DetectEventVariant(Val(schemaCache)),
                                settings.shift_out_cutoff_hours)
              IN /\ r.date \in ret.start..(ret.end - 1)
                 /\ r.first_in = single.first_in
                 /\ r.last_out = single.last_out
                 /\ r.duration_minutes = single.duration_minutes
                 /\ r.missing_punch = single.missing_punch
        /\ \A d \in ret.start..(ret.end - 1) :
              Slice(PeriodEvents, IndicesAfter(d).start_idx, IndicesAfter(d).end_idx)
                 = SelectSeq(PeriodEvents,
                       LAMBDA e : /\ d * SecondsPerDay <= e.event_time
                                  /\ e.event_time < (d + 1) * SecondsPerDay + CutoffSeconds)

\* a period of two days whose first record pairs an IN with an OUT after
\* midnight, an event that the window of the second day holds as well
C25_Witness ==
    /\ IsPeriodCall
    /\ ret.end - ret.start = 2
    /\ Len(ret.value) = 2
    /\ ret.value[1].last_out # None
    /\ ret.value[1].last_out[1] >= (ret.start + 1) * SecondsPerDay
    /\ ret.value[1].duration_minutes # None

----------------------------------------------------------------------------
(* The yearly report against the monthly reports *)

IsYearlyReport == IsReport("fetch_yearly_report")

\* the day records fetch_monthly_report lists for month m on the same table,
\* under the polarity of the yearly report
MonthlyRecords(m) ==
    BuildDailyRecordsForPeriod(tEvent, Val(schemaCache), DaysBefore(m) * SecondsPerDay,
        DaysBefore(m + 1) * SecondsPerDay, ret.value.swapApplied,
        DetectEventVariant(Val(schemaCache)), settings.shift_out_cutoff_hours)

\* total_minutes, total_days and missing_punch_days of that monthly report
MonthlyAggregates(m) ==
    LET records == MonthlyRecords(m)
    IN [total_minutes |-> SumDurations(records),
        total_days |-> TotalDays(records),
        missing_punch_days |-> MissingPunchDays(records)]

RECURSIVE SumMonths(_, _, _)
SumMonths(aggregates, m, field) ==
    IF m = 0 THEN 0
    ELSE (CASE field = "total_minutes" -> aggregates[m].total_minutes
            [] field = "total_days" -> aggregates[m].total_days
            [] OTHER -> aggregates[m].missing_punch_days)
         + SumMonths(aggregates, m - 1, field)

\* C26: the yearly report's total_minutes, total_worked_days and
\* missing_punch_days are the sums over the twelve months of the monthly
\* report's total_minutes, total_days and missing_punch_days, and each month
\* listed carries the figures of its own monthly report: the day records are
\* bucketed by the month of their date.
C26_YearlyIsSumOfMonthly ==
    IsYearlyReport =>
        \E aggregates \in {[m \in 1..Len(MonthKeys) |-> MonthlyAggregates(m)]} :
            /\ ret.value.total_minutes
                   = SumMonths(aggregates, Len(MonthKeys), "total_minutes")
            /\ ret.value.total_worked_days
                   = SumMonths(aggregates, Len(MonthKeys), "total_days")
            /\ ret.value.missing_punch_days
                   = SumMonths(aggregates, Len(MonthKeys), "missing_punch_days")
            /\ \A i \in 1..Len(ret.value.months) :
                  \E m \in 1..Len(MonthKeys) :
                      /\ ret.value.months[i].month = MonthKeys[m]
                      /\ ret.value.months[i].total_minutes = aggregates[m].total_minutes
                      /\ ret.value.months[i].worked_days = aggregates[m].total_days
                      /\ ret.value.months[i].missing_punch_days
                             = aggregates[m].missing_punch_days

\* a year with records in two months: a shift from 31 January into 1 February
C26_Witness ==
    /\ IsYearlyReport
    /\ Len(ret.value.months) = 2
    /\ ret.value.total_minutes > 0
    /\ ret.value.missing_punch_days > 0

----------------------------------------------------------------------------
(* C27: in _compute_day_attendance, for every list of events in any order, *)
(* the window search alone yields a last OUT at or after the first IN, so   *)
(* the correction paths do not act: the last OUT returned is the latest OUT *)
(* of the window, it is never before the first IN, and the duration is null *)
(* exactly when the first IN or the last OUT is null.                       *)
IsAttendCall == ret.op = "compute_day_attendance"
WindowOuts ==
    OutsAfterIn(tEvent, Val(ret.value.first_in_dt),
                OvernightEnd(ret.day_start + SecondsPerDay, settings.shift_out_cutoff_hours),
                ret.swap_applied)
C27_CorrectionNeverActs ==
    IsAttendCall =>
        /\ IsNone(ret.value.duration_minutes)
               <=> (IsNone(ret.value.first_in_dt) \/ IsNone(ret.value.last_out_dt))
        /\ ~IsNone(ret.value.first_in_dt) =>
               /\ \A i \in 1..Len(WindowOuts) : WindowOuts[i] >= Val(ret.value.first_in_dt)
               /\ ret.value.last_out_dt
                      = (IF WindowOuts = <<>> THEN None ELSE Some(SeqMax(WindowOuts)))
(* an unordered list with an OUT before the first IN and an OUT after it *)
C27_Witness ==
    /\ IsAttendCall
    /\ ~IsNone(ret.value.first_in_dt)
    /\ ~IsNone(ret.value.last_out_dt)
    /\ ~IsNone(ret.value.duration_minutes)
    /\ \E i, j \in 1..Len(tEvent) :
           /\ i < j
           /\ IsOutEvent(tEvent[i], ret.swap_applied)
           /\ IsOutEvent(tEvent[j], ret.swap_applied)
           /\ tEvent[j].event_time < Val(ret.value.first_in_dt)
           /\ tEvent[i].event_time > Val(ret.value.first_in_dt)

----------------------------------------------------------------------------
(* C28: the totals of _compute_period_segment_totals depend only on which   *)
(* (timestamp, flag) events there are: delivering the events that share a   *)
(* timestamp in another order gives the same totalInMinutes,                *)
(* totalOutMinutes and per-day minutes.                                     *)
\* the orders of the table that differ only among rows of one timestamp
TieOrders ==
    {[i \in 1..Len(tEvent) |-> tEvent[p[i]]] :
        p \in {q \in [1..Len(tEvent) -> 1..Len(tEvent)] :
                  /\ \A i, j \in 1..Len(tEvent) : i # j => q[i] # q[j]
                  /\ \A i \in 1..Len(tEvent) :
                         tEvent[q[i]].event_time = tEvent[i].event_time}}
C28_TieOrderIrrelevant ==
    IsTotalsCall =>
        \A rows \in TieOrders :
            ComputePeriodSegmentTotals(rows, GetSchema(schemaCache, tColumns), ret.start,
                ret.end, ret.swap_applied,
                DetectEventVariant(GetSchema(schemaCache, tColumns))) = ret.value

----------------------------------------------------------------------------
(* C29: a reset token is redeemed at most once.  Once a call of             *)
(* redeem_password_reset has returned True for a token (its row is marked   *)
(* used), no call with that token, running then or later, returns True or   *)
(* changes the password of the user.                                        *)
RedeemsUsedToken(t) ==
    /\ calls[t].pc = "selected"
    /\ ~IsNone(appDb.password_resets[calls[t].reset_id].used_at)
C29_RedeemedAtMostOnce ==
    [][\A t \in Threads :
          (RedeemsUsedToken(t) /\ calls'[t].pc = "returned") =>
              /\ calls'[t].result # Some(TRUE)
              /\ appDb'.users[calls[t].user_id].password_hash
                     = appDb.users[calls[t].user_id].password_hash]_vars

----------------------------------------------------------------------------
(* C30: for every key and every interleaving of calls of allow, at most     *)
(* max_requests of the calls answered allowed have their timestamps within  *)
(* one interval of window_seconds; a denied call records no hit and its     *)
(* retry_after is at least 1.                                               *)
AllowedWithin(key, from) ==
    {i \in 1..Len(answered) :
        /\ answered[i].key = key
        /\ answered[i].allowed
        /\ from <= answered[i].now
        /\ answered[i].now <= from + WindowSeconds * TicksPerSecond}
AtMostMaxRequestsPerWindow ==
    \A i \in 1..Len(answered) :
        answered[i].allowed =>
            Cardinality(AllowedWithin(answered[i].key, answered[i].now)) <= MaxRequests
DeniedRetryAfter ==
    \A i \in 1..Len(answered) : ~answered[i].allowed => answered[i].retry_after >= 1
DeniedRecordsNoHit ==
    (Len(answered') > Len(answered) /\ ~answered'[Len(answered')].allowed) =>
        \A key \in Keys :
            Len(HitsOf(limiterHits', key)) <= Len(HitsOf(limiterHits, key))
C30_AtMostMaxPerWindow ==
    /\ []AtMostMaxRequestsPerWindow
    /\ []DeniedRetryAfter
    /\ [][DeniedRecordsNoHit]_vars

====
